---- MODULE Spec2Model ----
(***************************************************************************)
(* A model of the Scoundrel dungeon solver (src/solver.js, createSolver)   *)
(* and of the interactive game that calls it (createScoundrelApp).         *)
(*                                                                         *)
(* A card is a record [suit, rank]; JavaScript's null card is NoCard.      *)
(* A deck is a sequence whose LAST element is the top of the deck, as in   *)
(* the source (cards are drawn with pop()).  Table slots are numbered      *)
(* 0..3 as in the source; slot i is table[i + 1].                          *)
(***************************************************************************)
EXTENDS Integers, Sequences, FiniteSets, TLC

VARIABLES
    \* ---- the caller's arguments of makeInitialState / solve
    deck,                   \* the deck array handed in by the caller
    includeSpecialCards,    \* opts.includeSpecialCards
    startingHp,             \* opts.startingHp
    \* ---- a play-through of the solver's transition rules
    state,                  \* current dungeon state, NoState once terminal
    prevState,              \* the state the last action was applied to
    lastAction,             \* the last action handed to applyAction
    terminal,               \* terminal of the last applyAction result
    played,                 \* how many flee and how many other actions were applied
    call,                   \* the direct call of a solver function made last, on the
                            \* current state of the play-through, and what it returned
    \* ---- one invocation of solve(deck, opts)
    maxNodes,               \* opts.maxNodes
    returnPath,             \* opts.returnPath
    timeLimitMs,            \* opts.timeLimitMs, NoLimit when it is not a number
    pc,                     \* "idle" (not called yet), "loop" (at the loop head), "done" (returned)
    initial,                \* const initial
    stack,                  \* const stack: frames {state, actions, index}, top last
    keyStack,               \* const keyStack, top last
    visited,                \* const visited = new Set()
    parent,                 \* const parent = new Map(): key -> {prevKey, action}
    nodes,                  \* let nodes
    startMs,                \* const startMs, NoTime when null
    now,                    \* the last value Date.now() returned
    clockRead,              \* whether this invocation has called Date.now()
    result,                 \* the value solve returned
    \* ---- what the caller remembers of its first finished invocation
    firstArgs,
    firstResult,
    solvedBetween,          \* an invocation with other arguments has finished since
    \* ---- the interactive game in the browser
    app,                    \* const app of createScoundrelApp, NoApp when no page is loaded
    creationRuns,           \* the run() closures of beginDungeonCreation still in flight
    silentRun,              \* the run() closure of startSilentSolver
    lastCall                \* the last handler called on app, and what it did

argVars == <<deck, includeSpecialCards, startingHp>>
playVars == <<state, prevState, lastAction, terminal, played, call>>
optVars == <<maxNodes, returnPath, timeLimitMs>>
searchVars == <<pc, initial, stack, keyStack, visited, parent, nodes, startMs, now, clockRead, result>>
callerVars == <<firstArgs, firstResult, solvedBetween>>
solveVars == <<optVars, searchVars, callerVars>>
appVars == <<app, creationRuns, silentRun, lastCall>>
vars == <<argVars, playVars, solveVars, appVars>>

(***************************************************************************)
(* Bounds of the model.                                                    *)
(***************************************************************************)
MaxDeckLen == 5

\* Longest deck played with every mode and every starting hp.
MaxShortDeckLen == 3

\* Largest value of app.createDungeonToken.
MaxToken == 4

\* Longest deck handed to solve.
MaxSolveDeckLen == 5

\* Largest value the clock takes (milliseconds since the model's epoch).
MaxClock == 1

\* The small node budget and the small time limit a caller may pass.
SmallMaxNodes == 4

SmallTimeLimitMs == 1

\* Longest deck of the repeated invocations.
MaxRepeatDeckLen == 3

(***************************************************************************)
(* Card model.                                                             *)
(***************************************************************************)
SUIT == [hearts |-> "hearts", diamonds |-> "diamonds", clubs |-> "clubs", spades |-> "spades"]

SUIT_TO_INDEX == [hearts |-> 0, diamonds |-> 1, clubs |-> 2, spades |-> 3]

INDEX_TO_SUIT == <<"hearts", "diamonds", "clubs", "spades">>

NoCard == [suit |-> "none", rank |-> 0]

Card(suit, rank) == [suit |-> suit, rank |-> rank]

isEnemy(card) == card.suit = SUIT.spades \/ card.suit = SUIT.clubs

\* Mutant of isWeapon: the 10 of diamonds is left out.
isWeaponBelowTen(card) == card.suit = SUIT.diamonds /\ card.rank < 10

isWeapon(card) == card.suit = SUIT.diamonds /\ card.rank <= 10

isHealingPotion(card) == card.suit = SUIT.hearts /\ card.rank <= 10

isRepairToolkit(card) == card.suit = SUIT.diamonds /\ card.rank >= 11

isPoisonPotion(card) == card.suit = SUIT.hearts /\ card.rank >= 11

\* Mutant of KeepInBaseMode: only hearts are filtered by rank.
KeepInBaseModeHeartsOnly(c) ==
    IF c.suit # SUIT.hearts THEN TRUE ELSE c.rank <= 10

\* The predicate of deck.filter(...) in classic mode.
KeepInBaseMode(c) ==
    IF c.suit # SUIT.hearts /\ c.suit # SUIT.diamonds THEN TRUE ELSE c.rank <= 10

\* deck.filter(KeepInBaseMode): the kept cards, in their order.
RECURSIVE FilterBaseMode(_)
FilterBaseMode(d) ==
    IF d = <<>> THEN <<>>
    ELSE (IF KeepInBaseMode(Head(d)) THEN <<Head(d)>> ELSE <<>>) \o FilterBaseMode(Tail(d))

filterDeckForMode(d, special) ==
    IF special THEN d ELSE FilterBaseMode(d)

\* Mutant of drawTop: the top card is read and left on the deck.
drawTopPeek(d) ==
    IF Len(d) = 0 THEN [card |-> NoCard, deck |-> d]
    ELSE [card |-> d[Len(d)], deck |-> d]

\* deck.pop() ?? null, with the deck that is left.
drawTop(d) ==
    IF Len(d) = 0 THEN [card |-> NoCard, deck |-> d]
    ELSE [card |-> d[Len(d)], deck |-> SubSeq(d, 1, Len(d) - 1)]

\* [drawTop(d), drawTop(d), drawTop(d), drawTop(d)]: four draws, left to right.
DrawFour(d) ==
    LET r1 == drawTop(d)
        r2 == drawTop(r1.deck)
        r3 == drawTop(r2.deck)
        r4 == drawTop(r3.deck)
    IN  [table |-> <<r1.card, r2.card, r3.card, r4.card>>, deck |-> r4.deck]

(***************************************************************************)
(* Dungeon state.                                                          *)
(***************************************************************************)
NoState == [absent |-> TRUE]

NoTerminal == "none"

cloneState(s) ==
    [hp |-> s.hp,
     deck |-> s.deck,
     table |-> s.table,
     weaponRank |-> s.weaponRank,
     weaponKills |-> s.weaponKills,
     potionUsedThisRoom |-> s.potionUsedThisRoom,
     interactionsThisRoom |-> s.interactionsThisRoom,
     fledLastRoom |-> s.fledLastRoom]

makeInitialState(d, special, hp) ==
    LET filtered == filterDeckForMode(d, special)
        drawn == DrawFour(filtered)
    IN  [hp |-> hp,
         deck |-> drawn.deck,
         table |-> drawn.table,
         weaponRank |-> 0,
         weaponKills |-> <<>>,
         potionUsedThisRoom |-> FALSE,
         interactionsThisRoom |-> 0,
         fledLastRoom |-> FALSE]

\* s.table.some(Boolean)
TableSome(table) == \E i \in 1..Len(table) : table[i] # NoCard

isWinState(s) == s.hp > 0 /\ Len(s.deck) = 0 /\ ~TableSome(s.table)

isDeadState(s) == s.hp <= 0

(***************************************************************************)
(* Action enumerator.                                                      *)
(***************************************************************************)
FleeAction == [type |-> "flee", slot |-> -1, method |-> "none"]

EnemyAction(i, method) == [type |-> "enemy", slot |-> i, method |-> method]

SlotAction(type, i) == [type |-> type, slot |-> i, method |-> "none"]

\* Mutant of weaponAllowed: an enemy of the last kill's rank is allowed too.
weaponAllowedNonStrict(s, rank) ==
    IF s.weaponRank <= 0 THEN FALSE
    ELSE IF Len(s.weaponKills) = 0 THEN TRUE
    ELSE rank <= s.weaponKills[Len(s.weaponKills)]

weaponAllowed(s, rank) ==
    IF s.weaponRank <= 0 THEN FALSE
    ELSE IF Len(s.weaponKills) = 0 THEN TRUE
    ELSE rank < s.weaponKills[Len(s.weaponKills)]

\* Mutant of FleeAllowed: a flee is offered right after a flee.
FleeAllowedAfterFlee(s) ==
    s.interactionsThisRoom = 0 /\ TableSome(s.table)

FleeAllowed(s) ==
    s.interactionsThisRoom = 0 /\ ~s.fledLastRoom /\ TableSome(s.table)

\* Mutant of SlotActions: a poison potion gets no action.
SlotActionsHealingOnly(s, i) ==
    LET card == s.table[i + 1]
    IN  IF card = NoCard THEN <<>>
        ELSE IF isEnemy(card) THEN
            <<EnemyAction(i, "fist")>> \o
            (IF weaponAllowed(s, card.rank) THEN <<EnemyAction(i, "weapon")>> ELSE <<>>)
        ELSE IF isWeapon(card) THEN <<SlotAction("weapon", i)>>
        ELSE IF isRepairToolkit(card) THEN <<SlotAction("toolkit", i)>>
        ELSE IF isHealingPotion(card) THEN <<SlotAction("potion", i)>>
        ELSE <<>>

\* Mutant of SlotActions: the weapon fight is listed for every enemy.
SlotActionsWeaponAlways(s, i) ==
    LET card == s.table[i + 1]
    IN  IF card = NoCard THEN <<>>
        ELSE IF isEnemy(card) THEN <<EnemyAction(i, "fist"), EnemyAction(i, "weapon")>>
        ELSE IF isWeapon(card) THEN <<SlotAction("weapon", i)>>
        ELSE IF isRepairToolkit(card) THEN <<SlotAction("toolkit", i)>>
        ELSE IF isHealingPotion(card) \/ isPoisonPotion(card) THEN <<SlotAction("potion", i)>>
        ELSE <<>>

\* The actions one pass of the slot loop pushes for slot i.
SlotActions(s, i) ==
    LET card == s.table[i + 1]
    IN  IF card = NoCard THEN <<>>
        ELSE IF isEnemy(card) THEN
            <<EnemyAction(i, "fist")>> \o
            (IF weaponAllowed(s, card.rank) THEN <<EnemyAction(i, "weapon")>> ELSE <<>>)
        ELSE IF isWeapon(card) THEN <<SlotAction("weapon", i)>>
        ELSE IF isRepairToolkit(card) THEN <<SlotAction("toolkit", i)>>
        ELSE IF isHealingPotion(card) \/ isPoisonPotion(card) THEN <<SlotAction("potion", i)>>
        ELSE <<>>

enumerateActions(s) ==
    (IF FleeAllowed(s) THEN <<FleeAction>> ELSE <<>>)
        \o SlotActions(s, 0) \o SlotActions(s, 1) \o SlotActions(s, 2) \o SlotActions(s, 3)

(***************************************************************************)
(* State transition engine.                                                *)
(***************************************************************************)
Max(a, b) == IF a >= b THEN a ELSE b

Min(a, b) == IF a <= b THEN a ELSE b

\* One pass of the refill loop of afterInteraction, for slots i..3.
RECURSIVE Refill(_, _)
Refill(s, i) ==
    IF i > 3 THEN s
    ELSE IF s.table[i + 1] = NoCard /\ Len(s.deck) > 0
         THEN LET r == drawTop(s.deck)
              IN  Refill([s EXCEPT !.table[i + 1] = r.card, !.deck = r.deck], i + 1)
         ELSE Refill(s, i + 1)

\* Mutant of afterInteraction: the exhaustion check of line 231 is left out, so the
\* state with nothing left is returned as a next state.
afterInteractionNoWinCheck(s) ==
    LET s1 == [s EXCEPT !.interactionsThisRoom = @ + 1]
    IN  IF s1.interactionsThisRoom >= 3 \/ ~TableSome(s1.table)
        THEN [state |-> [Refill(s1, 0) EXCEPT !.interactionsThisRoom = 0,
                                              !.potionUsedThisRoom = FALSE,
                                              !.fledLastRoom = FALSE],
              terminal |-> NoTerminal]
        ELSE [state |-> s1, terminal |-> NoTerminal]

\* Mutant of afterInteraction: the room advances at the fourth interaction.
afterInteractionAdvanceAtFour(s) ==
    LET s1 == [s EXCEPT !.interactionsThisRoom = @ + 1]
    IN  IF Len(s1.deck) = 0 /\ ~TableSome(s1.table)
        THEN [state |-> s1, terminal |-> "win"]
        ELSE IF s1.interactionsThisRoom >= 4 \/ ~TableSome(s1.table)
        THEN [state |-> [Refill(s1, 0) EXCEPT !.interactionsThisRoom = 0,
                                              !.potionUsedThisRoom = FALSE,
                                              !.fledLastRoom = FALSE],
              terminal |-> NoTerminal]
        ELSE [state |-> s1, terminal |-> NoTerminal]

\* afterInteraction mutates s and returns {terminal}; here: the state it leaves
\* and the terminal it returns.
afterInteraction(s) ==
    LET s1 == [s EXCEPT !.interactionsThisRoom = @ + 1]
    IN  IF Len(s1.deck) = 0 /\ ~TableSome(s1.table)
        THEN [state |-> s1, terminal |-> "win"]
        ELSE IF s1.interactionsThisRoom >= 3 \/ ~TableSome(s1.table)
        THEN [state |-> [Refill(s1, 0) EXCEPT !.interactionsThisRoom = 0,
                                              !.potionUsedThisRoom = FALSE,
                                              !.fledLastRoom = FALSE],
              terminal |-> NoTerminal]
        ELSE [state |-> s1, terminal |-> NoTerminal]

\* return { state: end.terminal ? null : s, terminal: end.terminal }
EndOfInteraction(s) ==
    LET end == afterInteraction(s)
    IN  [state |-> IF end.terminal # NoTerminal THEN NoState ELSE end.state,
         terminal |-> end.terminal]

\* Mutant of FleeUnshift: the loop runs from slot 0 up to slot 3, so the slot-3 card
\* ends at the very bottom.
RECURSIVE FleeUnshiftAscending(_, _, _)
FleeUnshiftAscending(d, table, i) ==
    IF i < 0 THEN d
    ELSE FleeUnshiftAscending(IF table[4 - i] # NoCard THEN <<table[4 - i]>> \o d ELSE d,
                              table, i - 1)

\* The flee loop: for i = 3 down to 0, unshift table[i] onto the deck bottom.
RECURSIVE FleeUnshift(_, _, _)
FleeUnshift(d, table, i) ==
    IF i < 0 THEN d
    ELSE FleeUnshift(IF table[i + 1] # NoCard THEN <<table[i + 1]>> \o d ELSE d, table, i - 1)

\* Mutant of FledLastRoomAfterFlee: the flee branch leaves the flag cleared.
FledLastRoomLeftFalse == FALSE

\* s.fledLastRoom = true
FledLastRoomAfterFlee == TRUE

applyFlee(s) ==
    LET drawn == DrawFour(FleeUnshift(s.deck, s.table, 3))
    IN  [state |-> [s EXCEPT !.deck = drawn.deck,
                             !.table = drawn.table,
                             !.interactionsThisRoom = 0,
                             !.potionUsedThisRoom = FALSE,
                             !.fledLastRoom = FledLastRoomAfterFlee],
         terminal |-> NoTerminal]

Sentinel == [state |-> NoState, terminal |-> NoTerminal]

Dead == [state |-> NoState, terminal |-> "dead"]

\* Mutant of applyEnemy: the exhaustion check of the room-advance step is consulted
\* before the death check, so a lethal fight with the last card counts as a win.
applyEnemyExhaustionFirst(s, card, method) ==
    IF method = "weapon" THEN
        IF ~weaponAllowed(s, card.rank) THEN Sentinel
        ELSE LET damage == Max(0, card.rank - s.weaponRank)
                 hp == Max(0, s.hp - damage)
                 end == EndOfInteraction([s EXCEPT !.hp = hp,
                                                   !.weaponKills = Append(@, card.rank)])
             IN  IF end.terminal = "win" THEN end
                 ELSE IF hp <= 0 THEN Dead
                 ELSE end
    ELSE LET hp == Max(0, s.hp - card.rank)
             end == EndOfInteraction([s EXCEPT !.hp = hp])
         IN  IF end.terminal = "win" THEN end
             ELSE IF hp <= 0 THEN Dead
             ELSE end

\* Mutant of applyEnemy: a fist fight costs no hp.
applyEnemyFistHarmless(s, card, method) ==
    IF method = "weapon" THEN
        IF ~weaponAllowed(s, card.rank) THEN Sentinel
        ELSE LET damage == Max(0, card.rank - s.weaponRank)
                 hp == Max(0, s.hp - damage)
             IN  IF hp <= 0 THEN Dead
                 ELSE EndOfInteraction([s EXCEPT !.hp = hp,
                                                 !.weaponKills = Append(@, card.rank)])
    ELSE EndOfInteraction(s)

\* Mutant of applyEnemy: a fist kill is pushed on weaponKills as well.
applyEnemyFistCounts(s, card, method) ==
    IF method = "weapon" THEN
        IF ~weaponAllowed(s, card.rank) THEN Sentinel
        ELSE LET damage == Max(0, card.rank - s.weaponRank)
                 hp == Max(0, s.hp - damage)
             IN  IF hp <= 0 THEN Dead
                 ELSE EndOfInteraction([s EXCEPT !.hp = hp,
                                                 !.weaponKills = Append(@, card.rank)])
    ELSE LET hp == Max(0, s.hp - card.rank)
         IN  IF hp <= 0 THEN Dead
             ELSE EndOfInteraction([s EXCEPT !.hp = hp,
                                             !.weaponKills = Append(@, card.rank)])

\* Mutant of applyEnemy: the weapon takes nothing off the damage.
applyEnemyWeaponFullDamage(s, card, method) ==
    IF method = "weapon" THEN
        IF ~weaponAllowed(s, card.rank) THEN Sentinel
        ELSE LET hp == Max(0, s.hp - card.rank)
             IN  IF hp <= 0 THEN Dead
                 ELSE EndOfInteraction([s EXCEPT !.hp = hp,
                                                 !.weaponKills = Append(@, card.rank)])
    ELSE LET hp == Max(0, s.hp - card.rank)
         IN  IF hp <= 0 THEN Dead
             ELSE EndOfInteraction([s EXCEPT !.hp = hp])

applyEnemy(s, card, method) ==
    IF method = "weapon" THEN
        IF ~weaponAllowed(s, card.rank) THEN Sentinel
        ELSE LET damage == Max(0, card.rank - s.weaponRank)
                 hp == Max(0, s.hp - damage)
             IN  IF hp <= 0 THEN Dead
                 ELSE EndOfInteraction([s EXCEPT !.hp = hp,
                                                 !.weaponKills = Append(@, card.rank)])
    ELSE LET hp == Max(0, s.hp - card.rank)
         IN  IF hp <= 0 THEN Dead
             ELSE EndOfInteraction([s EXCEPT !.hp = hp])

\* Mutant of applyWeapon: the new weapon inherits the kills of the old one.
applyWeaponKeepsKills(s, card) ==
    EndOfInteraction([s EXCEPT !.weaponRank = card.rank])

applyWeapon(s, card) ==
    EndOfInteraction([s EXCEPT !.weaponRank = card.rank, !.weaponKills = <<>>])

\* Mutant of applyToolkit: the toolkit empties the kill stack.
applyToolkitClearsKills(s) ==
    IF s.weaponRank > 0 /\ Len(s.weaponKills) > 0
    THEN EndOfInteraction([s EXCEPT !.weaponKills = <<>>])
    ELSE EndOfInteraction(s)

applyToolkit(s) ==
    IF s.weaponRank > 0 /\ Len(s.weaponKills) > 0
    THEN EndOfInteraction([s EXCEPT !.weaponKills = SubSeq(@, 1, Len(@) - 1)])
    ELSE EndOfInteraction(s)

\* Mutant of applyPotion: the last-card rule takes a poison potion as well.
applyPotionAnyLastPotion(s, card) ==
    LET isLastCardOverall == Len(s.deck) = 0 /\ ~TableSome(s.table)
    IN  IF isLastCardOverall /\ (isHealingPotion(card) \/ isPoisonPotion(card))
        THEN [state |-> NoState, terminal |-> "win"]
        ELSE IF s.potionUsedThisRoom THEN EndOfInteraction(s)
        ELSE IF isPoisonPotion(card) THEN
            LET hp == Max(0, s.hp - 10)
            IN  IF hp <= 0 THEN Dead
                ELSE EndOfInteraction([s EXCEPT !.potionUsedThisRoom = TRUE, !.hp = hp])
        ELSE EndOfInteraction([s EXCEPT !.potionUsedThisRoom = TRUE,
                                        !.hp = Min(20, s.hp + card.rank)])

\* Mutant of applyPotion: a poison potion takes its 10 hp before the "potion used this
\* room" check, so it never fizzles.
applyPotionPoisonNeverFizzles(s, card) ==
    LET isLastCardOverall == Len(s.deck) = 0 /\ ~TableSome(s.table)
    IN  IF isLastCardOverall /\ isHealingPotion(card)
        THEN [state |-> NoState, terminal |-> "win"]
        ELSE IF isPoisonPotion(card) THEN
            LET hp == Max(0, s.hp - 10)
            IN  IF hp <= 0 THEN Dead
                ELSE EndOfInteraction([s EXCEPT !.potionUsedThisRoom = TRUE, !.hp = hp])
        ELSE IF s.potionUsedThisRoom THEN EndOfInteraction(s)
        ELSE EndOfInteraction([s EXCEPT !.potionUsedThisRoom = TRUE,
                                        !.hp = Min(20, s.hp + card.rank)])

applyPotion(s, card) ==
    LET isLastCardOverall == Len(s.deck) = 0 /\ ~TableSome(s.table)
    IN  IF isLastCardOverall /\ isHealingPotion(card)
        THEN [state |-> NoState, terminal |-> "win"]
        ELSE IF s.potionUsedThisRoom THEN EndOfInteraction(s)
        ELSE IF isPoisonPotion(card) THEN
            LET hp == Max(0, s.hp - 10)
            IN  IF hp <= 0 THEN Dead
                ELSE EndOfInteraction([s EXCEPT !.potionUsedThisRoom = TRUE, !.hp = hp])
        ELSE EndOfInteraction([s EXCEPT !.potionUsedThisRoom = TRUE,
                                        !.hp = Min(20, s.hp + card.rank)])

applyAction(s0, action) ==
    LET s == cloneState(s0)
    IN  IF action.type = "flee" THEN applyFlee(s)
        ELSE LET card == s.table[action.slot + 1]
                 s1 == [s EXCEPT !.table[action.slot + 1] = NoCard]
             IN  IF card = NoCard THEN Sentinel
                 ELSE IF action.type = "enemy" THEN applyEnemy(s1, card, action.method)
                 ELSE IF action.type = "weapon" THEN applyWeapon(s1, card)
                 ELSE IF action.type = "toolkit" THEN applyToolkit(s1)
                 ELSE IF action.type = "potion" THEN applyPotion(s1, card)
                 ELSE Sentinel

(***************************************************************************)
(* Inputs: decks of distinct cards over a small card universe that holds   *)
(* every role, and starting hit points inside and outside 0..20.           *)
(***************************************************************************)
DeckCards ==
    {Card("clubs", 2), Card("spades", 14), Card("diamonds", 4), Card("hearts", 3),
     Card("hearts", 11)}

\* Enemies of equal and of different ranks, a weapon and a toolkit.
KillOrderCards ==
    {Card("clubs", 2), Card("spades", 2), Card("spades", 14), Card("diamonds", 4),
     Card("diamonds", 11)}

\* Two weapons and two enemies: a weapon can replace one that has made kills.
WeaponSwapCards ==
    {Card("diamonds", 4), Card("diamonds", 5), Card("clubs", 2), Card("spades", 14)}

StartingHps == {0, 20, 21}

Range(seq) == {seq[i] : i \in 1..Len(seq)}

\* Sequences of distinct elements of S with at most n elements.
RECURSIVE DistinctSeqs(_, _)
DistinctSeqs(S, n) ==
    IF n = 0 THEN {<<>>}
    ELSE LET shorter == DistinctSeqs(S, n - 1)
             longest == {p \in shorter : Len(p) = n - 1}
         IN  shorter \cup UNION {{Append(p, c) : c \in S \ Range(p)} : p \in longest}

Decks ==
    DistinctSeqs(DeckCards, MaxDeckLen) \cup DistinctSeqs(KillOrderCards, MaxDeckLen)
        \cup DistinctSeqs(WeaponSwapCards, MaxDeckLen)

\* The caller's arguments of makeInitialState: every deck in special mode at the
\* default hp, and the short decks in both modes at every starting hp.
Inputs ==
    {[deck |-> d, includeSpecialCards |-> TRUE, startingHp |-> 20] : d \in Decks}
    \cup {[deck |-> d, includeSpecialCards |-> m, startingHp |-> hp] :
             d \in {e \in Decks : Len(e) <= MaxShortDeckLen}, m \in BOOLEAN, hp \in StartingHps}

NoAction == [type |-> "none", slot |-> -1, method |-> "none"]


(***************************************************************************)
(* Memoization key encoder.  A key is the string stateKey builds, held as  *)
(* its sequence of tokens: Num(n) is the decimal text of the number n >= 0 *)
(* (the token n), Sym(c) the separator text c (a token below 0).  The      *)
(* empty sequence is the empty string.                                     *)
(***************************************************************************)
Num(n) == n

Sym(c) ==
    CASE c = ":" -> 0 - 1
      [] c = "," -> 0 - 2
      [] c = "." -> 0 - 3
      [] c = "|" -> 0 - 4
      [] c = "=>WIN@" -> 0 - 5

\* Mutant of encodeCard: 8 ids to a suit instead of 16.
encodeCardNarrow(card) ==
    IF card = NoCard THEN 0 ELSE SUIT_TO_INDEX[card.suit] * 8 + card.rank

encodeCard(card) ==
    IF card = NoCard THEN 0 ELSE SUIT_TO_INDEX[card.suit] * 16 + card.rank

decodeCard(id) ==
    IF id = 0 THEN NoCard
    ELSE [suit |-> INDEX_TO_SUIT[(id \div 16) + 1], rank |-> id % 16]

\* numbers.join(sep): the numbers' texts with sep between neighbours.
RECURSIVE JoinNums(_, _)
JoinNums(numbers, sep) ==
    IF Len(numbers) = 0 THEN <<>>
    ELSE IF Len(numbers) = 1 THEN <<Num(numbers[1])>>
    ELSE <<Num(numbers[1]), Sym(sep)>> \o JoinNums(Tail(numbers), sep)

\* parts.join(":") for parts that are strings themselves.
RECURSIVE JoinParts(_)
JoinParts(parts) ==
    IF Len(parts) = 0 THEN <<>>
    ELSE IF Len(parts) = 1 THEN parts[1]
    ELSE parts[1] \o <<Sym(":")>> \o JoinParts(Tail(parts))

EncodeCards(cards) == [i \in 1..Len(cards) |-> encodeCard(cards[i])]


\* Mutant of stateKey: the fledLastRoom part is left out of the key.
stateKeyWithoutFled(s) ==
    LET deckKey == JoinNums(EncodeCards(s.deck), ",")
        tableKey == JoinNums(EncodeCards(s.table), ",")
        killsKey == JoinNums(s.weaponKills, ".")
    IN  JoinParts(<<
            <<Num(s.hp)>>,
            <<Num(s.weaponRank)>>,
            <<Num(IF s.potionUsedThisRoom THEN 1 ELSE 0)>>,
            <<Num(s.interactionsThisRoom)>>,
            killsKey,
            <<Sym("|")>>,
            tableKey,
            <<Sym("|")>>,
            deckKey >>)

stateKey(s) ==
    LET deckKey == JoinNums(EncodeCards(s.deck), ",")
        tableKey == JoinNums(EncodeCards(s.table), ",")
        killsKey == JoinNums(s.weaponKills, ".")
    IN  JoinParts(<<
            <<Num(s.hp)>>,
            <<Num(s.weaponRank)>>,
            <<Num(IF s.potionUsedThisRoom THEN 1 ELSE 0)>>,
            <<Num(s.interactionsThisRoom)>>,
            <<Num(IF s.fledLastRoom THEN 1 ELSE 0)>>,
            killsKey,
            <<Sym("|")>>,
            tableKey,
            <<Sym("|")>>,
            deckKey >>)

\* null as a key; "" is the one string the source's falsy tests also take for it.
NoKey == <<>>

(***************************************************************************)
(* Search driver: solve(deck, opts).                                       *)
(***************************************************************************)
\* A number of milliseconds; a timeLimitMs that is not a number; startMs === null.
Ms(n) == [ms |-> n]

NoLimit == [absent |-> TRUE]

NoTime == [absent |-> TRUE]

\* frame.actions === null
NullActions == <<NoAction>>

\* A property the returned object does not have: as a string, a number, a path.
Undefined == "undefined"

UndefinedNumber == 0 - 1

UndefinedPath == <<NoAction>>

NoResult == [clearable |-> "pending", reason |-> Undefined, nodes |-> UndefinedNumber,
             path |-> UndefinedPath, ms |-> UndefinedNumber]

Verdict(clearable, reason, n, path, ms) ==
    [clearable |-> clearable, reason |-> reason, nodes |-> n, path |-> path, ms |-> ms]

Frame(s) == [state |-> s, actions |-> NullActions, index |-> 0]

Top(seq) == seq[Len(seq)]

Pop(seq) == SubSeq(seq, 1, Len(seq) - 1)

\* Mutant of FreshVisited: one visited set kept by the solver instance across calls.
StaleVisited == visited

\* const visited = new Set()
FreshVisited == {}

\* const parent = returnPath ? new Map() : null, then parent.set(rootKey, ...)
FreshParent(rp, rootKey) ==
    IF rp THEN (rootKey :> [prevKey |-> NoKey, action |-> NoAction]) ELSE <<>>


\* Mutant of TimeLimitHit: > for >=.
TimeLimitHitStrict(elapsed, limit) == elapsed > limit.ms

\* Date.now() - startMs >= timeLimitMs
TimeLimitHit(elapsed, limit) == elapsed >= limit.ms


\* Mutant of NodeLimitHit: >= for >.
NodeLimitHitEarly(n, limit) == n >= limit

\* nodes++ > maxNodes, on the value of nodes before the increment
NodeLimitHit(n, limit) == n > limit


\* Mutant of NodeLimitVerdict: the abort reported as a proof of non-clearability.
NodeLimitAsFalse(n) == Verdict("false", "node_limit", n, UndefinedPath, UndefinedNumber)

NodeLimitVerdict(n) == Verdict("null", "node_limit", n, UndefinedPath, UndefinedNumber)

TimeLimitVerdict(n, ms) == Verdict("null", "time_limit", n, UndefinedPath, ms)


\* Mutant of WinFound: any terminal outcome taken for a win.
WinFoundOnAnyTerminal(out) == out.terminal # NoTerminal

\* Mutant of ActionsExhausted: the last action of a frame is never tried.
ActionsExhaustedOneEarly(frame) == frame.index >= Len(frame.actions) - 1

\* frame.index >= frame.actions.length
ActionsExhausted(frame) == frame.index >= Len(frame.actions)

\* out.terminal === "win"
WinFound(out) == out.terminal = "win"

\* `${key}=>WIN@${frame.index - 1}`
WinKey(key, index) == key \o <<Sym("=>WIN@"), Num(index)>>

Reverse(seq) == [i \in 1..Len(seq) |-> seq[Len(seq) + 1 - i]]

\* The while (true) walk over the parent map: the actions from cur back to the root.
RECURSIVE WalkParents(_, _)
WalkParents(par, cur) ==
    IF cur \notin DOMAIN par THEN <<>>
    ELSE IF par[cur].prevKey = NoKey THEN <<>>
    ELSE <<par[cur].action>> \o WalkParents(par, par[cur].prevKey)


\* Mutant of reconstructPath: path.reverse() left out.
reconstructPathUnreversed(par, winKey) == WalkParents(par, winKey)

reconstructPath(par, winKey) == Reverse(WalkParents(par, winKey))

\* The clock: Date.now() at a loop head or at the call returns a value not below
\* the one the last loop head read, which is what the variable now holds.
ClockValues == now..MaxClock

\* ms: startMs !== null ? Date.now() - startMs : undefined, the clock read as t.
ElapsedOrUndefined(t) == IF startMs = NoTime THEN UndefinedNumber ELSE t - startMs.ms

\* The loop body from `const frame` on (lines 369-423), the node counter already
\* incremented to n.
SearchBody(n) ==
    LET frame0 == Top(stack)
        key == Top(keyStack)
        fresh == frame0.actions = NullActions
        pruned == fresh /\ key \in visited
        seen == IF fresh /\ ~pruned THEN visited \cup {key} ELSE visited
        deadFrame == fresh /\ ~pruned /\ isDeadState(frame0.state)
        winFrame == fresh /\ ~pruned /\ ~deadFrame /\ isWinState(frame0.state)
        frame == IF fresh THEN [frame0 EXCEPT !.actions = enumerateActions(frame0.state),
                                              !.index = 0]
                 ELSE frame0
        exhausted == ActionsExhausted(frame)
        pop == /\ stack' = Pop(stack)
               /\ keyStack' = Pop(keyStack)
               /\ UNCHANGED <<parent, result>>
               /\ pc' = "loop"
    IN  /\ nodes' = n
        /\ visited' = seen
        /\ UNCHANGED <<initial, startMs>>
        /\ IF pruned \/ deadFrame THEN pop
           ELSE IF winFrame THEN
                /\ result' = Verdict("true", Undefined, n,
                                     IF returnPath THEN <<>> ELSE UndefinedPath, UndefinedNumber)
                /\ pc' = "done"
                /\ UNCHANGED <<stack, keyStack, parent>>
           ELSE IF exhausted THEN pop
           ELSE LET action == frame.actions[frame.index + 1]
                    advanced == [frame EXCEPT !.index = @ + 1]
                    out == applyAction(frame.state, action)
                    winKey == WinKey(key, advanced.index - 1)
                    nextKey == stateKey(out.state)
                    stay == /\ stack' = [stack EXCEPT ![Len(stack)] = advanced]
                            /\ UNCHANGED <<keyStack, parent, result>>
                            /\ pc' = "loop"
                IN  IF WinFound(out) THEN
                        /\ stack' = [stack EXCEPT ![Len(stack)] = advanced]
                        /\ UNCHANGED keyStack
                        /\ pc' = "done"
                        /\ IF ~returnPath
                           THEN /\ result' = Verdict("true", Undefined, n, UndefinedPath,
                                                     UndefinedNumber)
                                /\ UNCHANGED parent
                           ELSE /\ parent' = [k \in DOMAIN parent \cup {winKey} |->
                                                IF k = winKey
                                                THEN [prevKey |-> key, action |-> action]
                                                ELSE parent[k]]
                                /\ result' = Verdict("true", Undefined, n,
                                                     reconstructPath(parent', winKey),
                                                     UndefinedNumber)
                    ELSE IF out.terminal = "dead" \/ out.state = NoState THEN stay
                    ELSE IF nextKey \in seen THEN stay
                    ELSE /\ stack' = Append([stack EXCEPT ![Len(stack)] = advanced],
                                            Frame(out.state))
                         /\ keyStack' = Append(keyStack, nextKey)
                         /\ parent' = IF returnPath /\ nextKey \notin DOMAIN parent
                                      THEN [k \in DOMAIN parent \cup {nextKey} |->
                                              IF k = nextKey
                                              THEN [prevKey |-> key, action |-> action]
                                              ELSE parent[k]]
                                      ELSE parent
                         /\ UNCHANGED result
                         /\ pc' = "loop"

\* The two budget checks at the loop head (lines 362-367), then the loop body.
\* t is what Date.now() returns at line 362, t2 (not below t) what it returns at
\* line 363 for the ms of the verdict.
SearchIteration ==
    IF startMs # NoTime
    THEN \E t \in ClockValues :
            /\ clockRead' = TRUE
            /\ IF TimeLimitHit(t - startMs.ms, timeLimitMs)
               THEN \E t2 \in t..MaxClock :
                       /\ now' = t
                       /\ result' = TimeLimitVerdict(nodes, t2 - startMs.ms)
                       /\ pc' = "done"
                       /\ UNCHANGED <<initial, stack, keyStack, visited, parent, nodes, startMs>>
               ELSE /\ now' = t
                    /\ IF NodeLimitHit(nodes, maxNodes)
                       THEN /\ result' = NodeLimitVerdict(nodes + 1)
                            /\ nodes' = nodes + 1
                            /\ pc' = "done"
                            /\ UNCHANGED <<initial, stack, keyStack, visited, parent, startMs>>
                       ELSE SearchBody(nodes + 1)
    ELSE /\ UNCHANGED <<now, clockRead>>
         /\ IF NodeLimitHit(nodes, maxNodes)
            THEN /\ result' = NodeLimitVerdict(nodes + 1)
                 /\ nodes' = nodes + 1
                 /\ pc' = "done"
                 /\ UNCHANGED <<initial, stack, keyStack, visited, parent, startMs>>
            ELSE SearchBody(nodes + 1)

\* Lines 338-359: the call, up to the first loop head.
SolveEntry(d, special, hp, mn, rp, tl) ==
    LET init0 == makeInitialState(d, special, hp)
        rootKey == stateKey(init0)
    IN  /\ deck' = d
        /\ includeSpecialCards' = special
        /\ startingHp' = hp
        /\ maxNodes' = mn
        /\ returnPath' = rp
        /\ timeLimitMs' = tl
        /\ initial' = init0
        /\ IF isDeadState(init0) THEN
                /\ result' = Verdict("false", "dead_start", UndefinedNumber, UndefinedPath,
                                     UndefinedNumber)
                /\ pc' = "done"
                /\ stack' = <<>>
                /\ keyStack' = <<>>
                /\ visited' = {}
                /\ parent' = <<>>
                /\ nodes' = 0
                /\ startMs' = NoTime
                /\ clockRead' = FALSE
                /\ UNCHANGED now
           ELSE IF isWinState(init0) THEN
                /\ result' = Verdict("true", Undefined, UndefinedNumber, <<>>, UndefinedNumber)
                /\ pc' = "done"
                /\ stack' = <<>>
                /\ keyStack' = <<>>
                /\ visited' = {}
                /\ parent' = <<>>
                /\ nodes' = 0
                /\ startMs' = NoTime
                /\ clockRead' = FALSE
                /\ UNCHANGED now
           ELSE /\ visited' = FreshVisited
                /\ parent' = FreshParent(rp, rootKey)
                /\ nodes' = 0
                /\ IF tl # NoLimit
                   THEN \E t \in ClockValues :
                           /\ now' = t
                           /\ startMs' = Ms(t)
                           /\ clockRead' = TRUE
                   ELSE /\ startMs' = NoTime
                        /\ clockRead' = FALSE
                        /\ UNCHANGED now
                /\ stack' = <<Frame(init0)>>
                /\ keyStack' = <<rootKey>>
                /\ result' = NoResult
                /\ pc' = "loop"

\* Line 426: the loop condition fails and solve returns clearable: false.
SearchExhausted ==
    /\ \E t \in ClockValues :
          /\ result' = Verdict("false", Undefined, nodes, UndefinedPath, ElapsedOrUndefined(t))
          /\ IF startMs # NoTime THEN now' = t /\ clockRead' = TRUE
             ELSE t = now /\ UNCHANGED <<now, clockRead>>
    /\ pc' = "done"
    /\ UNCHANGED <<initial, stack, keyStack, visited, parent, nodes, startMs>>

(***************************************************************************)
(* The interactive game: createScoundrelApp.  The variable app holds the   *)
(* fields of the app object; a handler is an operator from the app object  *)
(* before the call to the app object after it.                             *)
(***************************************************************************)
MAX_HP == 20

SILENT_POOL_LIMIT == 3

NoApp == [absent |-> TRUE]

NoGame == [absent |-> TRUE]

NoPending == [kind |-> "none"]

NoDungeon == [absent |-> TRUE]

app_isEnemy(card) == card.suit = SUIT.spades \/ card.suit = SUIT.clubs

app_isWeapon(card) == card.suit = SUIT.diamonds /\ card.rank <= 10

isPotion(card) == card.suit = SUIT.hearts /\ card.rank <= 10

app_isRepairToolkit(card) == card.suit = SUIT.diamonds /\ card.rank >= 11

app_isPoisonPotion(card) == card.suit = SUIT.hearts /\ card.rank >= 11

isAnyPotion(card) == isPotion(card) \/ app_isPoisonPotion(card)

\* deck.pop() ?? null, with the deck that is left.
app_drawTop(d) ==
    IF Len(d) = 0 THEN [card |-> NoCard, deck |-> d]
    ELSE [card |-> d[Len(d)], deck |-> SubSeq(d, 1, Len(d) - 1)]

\* [drawTop(deck), drawTop(deck), drawTop(deck), drawTop(deck)]
app_DrawFour(d) ==
    LET r1 == app_drawTop(d)
        r2 == app_drawTop(r1.deck)
        r3 == app_drawTop(r2.deck)
        r4 == app_drawTop(r3.deck)
    IN  [table |-> <<r1.card, r2.card, r3.card, r4.card>>, deck |-> r4.deck]

\* The cards createDeck pushes: every card of the pack, less hearts and diamonds
\* J, Q, K, A in classic mode.
createDeckCards(pack, special) ==
    {c \in pack :
        ~(/\ ~special
          /\ (c.suit = SUIT.hearts \/ c.suit = SUIT.diamonds)
          /\ c.rank \in {11, 12, 13, 14})}

\* The decks createDeck can return: shuffleInPlace leaves any order of the cards.
createDeck(pack, special) ==
    {d \in DistinctSeqs(createDeckCards(pack, special), Cardinality(pack)) :
        Len(d) = Cardinality(createDeckCards(pack, special))}

\* app.setScreen: the screen that is rendered and whose options take input.  Only the
\* game over screens print a score.
setScreen(a, name) ==
    [a EXCEPT !.screen = name,
              !.score = IF name \in {"death", "clear"} THEN @ ELSE 0]

showMenu(a) ==
    setScreen([a EXCEPT !.mode = "menu",
                        !.game = NoGame,
                        !.pending = NoPending,
                        !.resetReturn = "null",
                        !.pendingDungeon = NoDungeon,
                        !.createDungeonToken = @ + 1],
              "menu")

showRoom(a) ==
    IF a.game = NoGame THEN showMenu(a)
    ELSE setScreen([a EXCEPT !.mode = "room", !.pending = NoPending], "room")

\* const canFlee of showRoom: the flee option is enabled.
canFlee(g) == g.interactionsThisRoom = 0 /\ ~g.fledLastRoom

startGameFromPreparedDungeon(a, prepared) ==
    showRoom([a EXCEPT !.game = [room |-> 1,
                                 hp |-> MAX_HP,
                                 deck |-> prepared.deck,
                                 table |-> prepared.table,
                                 weapon |-> NoCard,
                                 weaponKills |-> <<>>,
                                 potionUsedThisRoom |-> FALSE,
                                 interactionsThisRoom |-> 0,
                                 fledLastRoom |-> FALSE,
                                 lastUsedCard |-> NoCard,
                                 includeSpecialCards |-> prepared.includeSpecialCards],
                       !.pending = NoPending,
                       !.mode = "room"])

\* The game over screens: the mode, the screen and the score it prints.
RemainingEnemyRankSum(g) ==
    LET RECURSIVE Sum(_)
        Sum(cards) ==
            IF cards = <<>> THEN 0
            ELSE (IF Head(cards) # NoCard /\ app_isEnemy(Head(cards))
                  THEN Head(cards).rank ELSE 0) + Sum(Tail(cards))
    IN  Sum(g.deck) + Sum(g.table)

finishGameDeath(a) ==
    setScreen([a EXCEPT !.mode = "gameOver",
                        !.score = (0 - 1) * RemainingEnemyRankSum(a.game)],
              "death")

\* Mutant of finishGameClear: the score is the hp alone.
finishGameClearWithoutBonus(a, bonusCardOverride) ==
    setScreen([a EXCEPT !.mode = "gameOver", !.score = a.game.hp], "clear")

finishGameClear(a, bonusCardOverride) ==
    LET bonusCard == bonusCardOverride
        bonus == IF bonusCard # NoCard /\ isPotion(bonusCard) THEN bonusCard.rank ELSE 0
    IN  setScreen([a EXCEPT !.mode = "gameOver", !.score = a.game.hp + bonus], "clear")

\* The refill loop of afterInteraction: empty slots draw while the deck has cards.
RECURSIVE app_Refill(_, _, _)
app_Refill(table, d, i) ==
    IF i > 4 THEN [table |-> table, deck |-> d]
    ELSE IF table[i] = NoCard /\ Len(d) > 0
         THEN app_Refill([table EXCEPT ![i] = app_drawTop(d).card], app_drawTop(d).deck, i + 1)
         ELSE app_Refill(table, d, i + 1)

app_afterInteraction(a0) ==
    IF a0.game = NoGame THEN showMenu(a0)
    ELSE
    LET g == [a0.game EXCEPT !.interactionsThisRoom = @ + 1]
        a == [a0 EXCEPT !.game = g]
        hasAnyTableCard == \E i \in 1..4 : g.table[i] # NoCard
    IN  IF Len(g.deck) = 0 /\ ~hasAnyTableCard THEN finishGameClear(a, NoCard)
        ELSE IF g.interactionsThisRoom >= 3 \/ ~hasAnyTableCard
        THEN LET filled == app_Refill(g.table, g.deck, 1)
             IN  showRoom([a EXCEPT !.game = [g EXCEPT !.table = filled.table,
                                                       !.deck = filled.deck,
                                                       !.room = @ + 1,
                                                       !.interactionsThisRoom = 0,
                                                       !.potionUsedThisRoom = FALSE,
                                                       !.fledLastRoom = FALSE]])
        ELSE showRoom(a)

\* The flee loop of fleeRoom: for i = 3 down to 0, unshift table[i] onto the deck bottom.
RECURSIVE app_FleeUnshift(_, _, _)
app_FleeUnshift(d, table, i) ==
    IF i < 0 THEN d
    ELSE app_FleeUnshift(IF table[i + 1] # NoCard THEN <<table[i + 1]>> \o d ELSE d,
                         table, i - 1)

\* if (g.interactionsThisRoom !== 0) return; if (g.fledLastRoom) return;
FleeRoomRefused(g) == g.interactionsThisRoom # 0 \/ g.fledLastRoom

fleeRoom(a) ==
    IF a.game = NoGame THEN showMenu(a)
    ELSE IF FleeRoomRefused(a.game) THEN a
    ELSE LET g == a.game
             drawn == app_DrawFour(app_FleeUnshift(g.deck, g.table, 3))
         IN  showRoom([a EXCEPT !.game = [g EXCEPT !.deck = drawn.deck,
                                                   !.table = drawn.table,
                                                   !.interactionsThisRoom = 0,
                                                   !.potionUsedThisRoom = FALSE,
                                                   !.fledLastRoom = TRUE]])

showEnemyChoice(a, slotIndex, enemyCard) ==
    setScreen([a EXCEPT !.mode = "enemyChoice",
                        !.pending = [kind |-> "enemyChoice",
                                     slotIndex |-> slotIndex,
                                     enemyCard |-> enemyCard]],
              "enemyChoice")

\* Mutant of app_weaponAllowed: the weapon option is enabled for an enemy of the rank
\* of the last kill.
app_weaponAllowedNonStrict(g, enemyCard) ==
    IF g.weapon = NoCard THEN FALSE
    ELSE IF Len(g.weaponKills) = 0 THEN TRUE
    ELSE enemyCard.rank <= g.weaponKills[Len(g.weaponKills)].rank

\* const weaponAllowed of showEnemyChoice: the weapon option is enabled.
app_weaponAllowed(g, enemyCard) ==
    IF g.weapon = NoCard THEN FALSE
    ELSE IF Len(g.weaponKills) = 0 THEN TRUE
    ELSE enemyCard.rank < g.weaponKills[Len(g.weaponKills)].rank

fightEnemy(a, slotIndex, enemyCard, method) ==
    IF a.game = NoGame THEN showMenu(a)
    ELSE
    LET g0 == [a.game EXCEPT !.lastUsedCard = enemyCard]
        weaponRank == IF g0.weapon # NoCard THEN g0.weapon.rank ELSE 0
        damage == IF method = "weapon" THEN Max(0, enemyCard.rank - weaponRank)
                  ELSE enemyCard.rank
        hpAfter == g0.hp - damage
        g1 == [g0 EXCEPT !.weaponKills = IF method = "weapon" THEN Append(@, enemyCard) ELSE @,
                         !.hp = Max(0, hpAfter),
                         !.table[slotIndex + 1] = NoCard]
    IN  IF hpAfter < 0 THEN finishGameDeath([a EXCEPT !.game = [g0 EXCEPT !.hp = 0]])
        ELSE IF g1.hp <= 0 THEN finishGameDeath([a EXCEPT !.game = g1])
        ELSE app_afterInteraction([a EXCEPT !.game = g1])

pickUpWeapon(a, slotIndex, weaponCard) ==
    IF a.game = NoGame THEN showMenu(a)
    ELSE app_afterInteraction([a EXCEPT !.game = [a.game EXCEPT !.lastUsedCard = weaponCard,
                                                                !.weapon = weaponCard,
                                                                !.weaponKills = <<>>,
                                                                !.table[slotIndex + 1] = NoCard]])

useRepairToolkit(a, slotIndex, toolkitCard) ==
    IF a.game = NoGame THEN showMenu(a)
    ELSE
    LET g == [a.game EXCEPT !.lastUsedCard = toolkitCard, !.table[slotIndex + 1] = NoCard]
    IN  IF g.weapon = NoCard \/ Len(g.weaponKills) = 0
        THEN app_afterInteraction([a EXCEPT !.game = g])
        ELSE app_afterInteraction(
                 [a EXCEPT !.game = [g EXCEPT !.weaponKills = SubSeq(@, 1, Len(@) - 1)]])

\* Mutant of drinkPotion: the "potion used this room" check comes before the last-card
\* rule, so a last healing potion drunk after another potion fizzles without bonus.
drinkPotionFizzleFirst(a, slotIndex, potionCard) ==
    IF a.game = NoGame THEN showMenu(a)
    ELSE
    LET g == [a.game EXCEPT !.lastUsedCard = potionCard, !.table[slotIndex + 1] = NoCard]
        isLastCardOverall == Len(g.deck) = 0 /\ ~(\E i \in 1..4 : g.table[i] # NoCard)
        used == [g EXCEPT !.potionUsedThisRoom = TRUE]
        poisoned == [used EXCEPT !.hp = Max(0, @ - 10)]
        healed == [used EXCEPT !.hp = Min(MAX_HP, @ + potionCard.rank)]
    IN  IF g.potionUsedThisRoom THEN app_afterInteraction([a EXCEPT !.game = g])
        ELSE IF isLastCardOverall /\ isPotion(potionCard)
        THEN finishGameClear([a EXCEPT !.game = g], potionCard)
        ELSE IF app_isPoisonPotion(potionCard)
        THEN IF poisoned.hp <= 0 THEN finishGameDeath([a EXCEPT !.game = poisoned])
             ELSE app_afterInteraction([a EXCEPT !.game = poisoned])
        ELSE app_afterInteraction([a EXCEPT !.game = healed])

drinkPotion(a, slotIndex, potionCard) ==
    IF a.game = NoGame THEN showMenu(a)
    ELSE
    LET g == [a.game EXCEPT !.lastUsedCard = potionCard, !.table[slotIndex + 1] = NoCard]
        isLastCardOverall == Len(g.deck) = 0 /\ ~(\E i \in 1..4 : g.table[i] # NoCard)
        used == [g EXCEPT !.potionUsedThisRoom = TRUE]
        poisoned == [used EXCEPT !.hp = Max(0, @ - 10)]
        healed == [used EXCEPT !.hp = Min(MAX_HP, @ + potionCard.rank)]
    IN  IF isLastCardOverall /\ isPotion(potionCard)
        THEN finishGameClear([a EXCEPT !.game = g], potionCard)
        ELSE IF g.potionUsedThisRoom THEN app_afterInteraction([a EXCEPT !.game = g])
        ELSE IF app_isPoisonPotion(potionCard)
        THEN IF poisoned.hp <= 0 THEN finishGameDeath([a EXCEPT !.game = poisoned])
             ELSE app_afterInteraction([a EXCEPT !.game = poisoned])
        ELSE app_afterInteraction([a EXCEPT !.game = healed])

interactWithSlot(a, slotIndex) ==
    IF a.game = NoGame THEN showMenu(a)
    ELSE
    LET card == a.game.table[slotIndex + 1]
    IN  IF card = NoCard THEN a
        ELSE IF app_isEnemy(card) THEN showEnemyChoice(a, slotIndex, card)
        ELSE IF app_isRepairToolkit(card) THEN useRepairToolkit(a, slotIndex, card)
        ELSE IF app_isWeapon(card) THEN pickUpWeapon(a, slotIndex, card)
        ELSE IF isAnyPotion(card) THEN drinkPotion(a, slotIndex, card)
        ELSE showRoom(a)

PoolKey(special) == IF special THEN "plus" ELSE "base"

\* takePreparedDungeon: the head of the mode's pool, and the app with it shifted out.
takePreparedDungeon(a, special) ==
    LET pool == a.silentPools[PoolKey(special)]
    IN  IF Len(pool) = 0 THEN [prepared |-> NoDungeon, app |-> a]
        ELSE [prepared |-> Head(pool),
              app |-> [a EXCEPT !.silentPools[PoolKey(special)] = Tail(pool)]]

shouldRunSilentSolver(a) == a.mode \in {"menu", "deckQueue", "room", "enemyChoice", "gameOver"}

\* The members of the object createSolver returns.
SolverExports ==
    {"solve", "makeInitialState", "parseCard", "cardText", "decodeCard", "encodeCard"}

\* typeof solver.solveCooperative === "function"
HasSolveCooperative == "solveCooperative" \in SolverExports

\* beginDungeonCreation up to the call of run(): the app, and whether a run starts.
beginDungeonCreation(a, special) ==
    LET taken == takePreparedDungeon(a, special)
    IN  IF taken.prepared # NoDungeon
        THEN [app |-> startGameFromPreparedDungeon(taken.app, taken.prepared), run |-> FALSE]
        ELSE [app |-> setScreen([a EXCEPT !.createDungeonToken = @ + 1,
                                          !.pendingDungeon = NoDungeon,
                                          !.pending = NoPending,
                                          !.mode = "creatingDungeon",
                                          !.creating = special],
                                "creating"),
              run |-> TRUE]

\* The Skip option of the creating screen, drawing the deck d from createDeck.
skipCalculation(a, d) ==
    LET drawn == app_DrawFour(d)
    IN  startGameFromPreparedDungeon(
            [a EXCEPT !.createDungeonToken = @ + 1],
            [deck |-> drawn.deck, table |-> drawn.table, includeSpecialCards |-> a.creating])

(***************************************************************************)
(* The app object after createScoundrelApp, and the two asynchronous runs: *)
(* the run of beginDungeonCreation and the run of startSilentSolver.       *)
(***************************************************************************)
ConstructedApp ==
    [screen |-> "blank",
     score |-> 0,
     creating |-> FALSE,
     mode |-> "menu",
     game |-> NoGame,
     pending |-> NoPending,
     resetReturn |-> "null",
     pendingDungeon |-> NoDungeon,
     createDungeonToken |-> 0,
     silentPools |-> [base |-> <<>>, plus |-> <<>>],
     silentSolverToken |-> 0,
     silentSolverRunning |-> FALSE]

NoRun == [pc |-> "none", token |-> 0]

\* What a call leaves on record of the game before it.
NoGameSeen == [game |-> FALSE, interactionsThisRoom |-> 0, fledLastRoom |-> FALSE]

Seen(a) ==
    IF a.game = NoGame THEN NoGameSeen
    ELSE [game |-> TRUE,
          interactionsThisRoom |-> a.game.interactionsThisRoom,
          fledLastRoom |-> a.game.fledLastRoom]

NoCall == [handler |-> "none", before |-> NoGameSeen, changed |-> FALSE]

\* The cards of the pack createDeck builds and shuffles.
GamePack ==
    {Card("clubs", 2), Card("spades", 14), Card("diamonds", 4), Card("hearts", 3),
     Card("hearts", 11)}

\* A pack that ends on its potions: both of them can share the last room.
PotionPack == {Card("clubs", 2), Card("hearts", 3), Card("hearts", 11)}

\* A pack of two healing potions: a full heal and the largest bonus.
BonusPack == {Card("hearts", 3), Card("hearts", 10)}

GamePacks == {GamePack, PotionPack, BonusPack}

OnScreen(name) == app # NoApp /\ app.screen = name

\* A handler called on the app object: the app after it, and the call on record.
Call(handler, after) ==
    /\ after.createDungeonToken <= MaxToken
    /\ app' = after
    /\ lastCall' = [handler |-> handler, before |-> Seen(app), changed |-> after # app]

startSilentSolver(a) ==
    IF a.silentSolverRunning THEN a
    ELSE [a EXCEPT !.silentSolverRunning = TRUE, !.silentSolverToken = @ + 1]

\* app.start()
Start ==
    /\ OnScreen("blank")
    /\ Call("start", showMenu(startSilentSolver(app)))
    /\ silentRun' = IF app.silentSolverRunning THEN silentRun
                    ELSE [pc |-> "scheduled", token |-> app.silentSolverToken + 1]
    /\ UNCHANGED <<creationRuns, argVars, playVars, solveVars>>

\* The run() a call of beginDungeonCreation starts, waiting for its first timer.
RunsAfterBegin(begun, special) ==
    IF begun.run
    THEN creationRuns \cup {[token |-> begun.app.createDungeonToken,
                             includeSpecialCards |-> special,
                             pc |-> "scheduled"]}
    ELSE creationRuns

\* Menu options 1 and 2: beginDungeonCreation.
SelectStartGame ==
    /\ OnScreen("menu")
    /\ \E special \in BOOLEAN :
          LET begun == beginDungeonCreation(app, special)
          IN  /\ Call("beginDungeonCreation", begun.app)
              /\ creationRuns' = RunsAfterBegin(begun, special)
    /\ UNCHANGED <<silentRun, argVars, playVars, solveVars>>

\* Cancel, Back and Main menu: showMenu.
SelectMenu ==
    /\ app # NoApp
    /\ app.screen \in {"creating", "solverNotFound", "dungeonReady", "deckQueue", "death", "clear"}
    /\ Call("showMenu", showMenu(app))
    /\ UNCHANGED <<creationRuns, silentRun, argVars, playVars, solveVars>>

\* Skip calculation (start random dungeon).
SelectSkip ==
    /\ OnScreen("creating")
    /\ \E pack \in GamePacks : \E d \in createDeck(pack, app.creating) :
          Call("skipCalculation", skipCalculation(app, d))
    /\ UNCHANGED <<creationRuns, silentRun, argVars, playVars, solveVars>>

\* Restart on a game over screen: beginDungeonCreation in the mode of the game.
SelectRestart ==
    /\ app # NoApp
    /\ app.screen \in {"death", "clear"}
    /\ LET begun == beginDungeonCreation(app, app.game.includeSpecialCards)
       IN  /\ Call("beginDungeonCreation", begun.app)
           /\ creationRuns' = RunsAfterBegin(begun, app.game.includeSpecialCards)
    /\ UNCHANGED <<silentRun, argVars, playVars, solveVars>>

\* fleeRoom called while the room screen is up: by the Flee option, which is
\* enabled when canFlee, or directly on the app object.
FleeRoom ==
    /\ OnScreen("room")
    /\ Call("fleeRoom", fleeRoom(app))
    /\ UNCHANGED <<creationRuns, silentRun, argVars, playVars, solveVars>>

\* Room options 1 to 4, enabled for the slots that hold a card.
SelectSlot ==
    /\ OnScreen("room")
    /\ \E i \in 0..3 :
          /\ app.game.table[i + 1] # NoCard
          /\ Call("interactWithSlot", interactWithSlot(app, i))
    /\ UNCHANGED <<creationRuns, silentRun, argVars, playVars, solveVars>>

\* Enemy choice options 1 (weapon, enabled when allowed) and 2 (fist).
SelectFight ==
    /\ OnScreen("enemyChoice")
    /\ \E method \in {"weapon", "fist"} :
          /\ method = "weapon" => app_weaponAllowed(app.game, app.pending.enemyCard)
          /\ Call("fightEnemy",
                  fightEnemy(app, app.pending.slotIndex, app.pending.enemyCard, method))
    /\ UNCHANGED <<creationRuns, silentRun, argVars, playVars, solveVars>>

\* Enemy choice option 9: Back.
SelectBack ==
    /\ OnScreen("enemyChoice")
    /\ Call("showRoom", showRoom(app))
    /\ UNCHANGED <<creationRuns, silentRun, argVars, playVars, solveVars>>

\* A scheduled run of beginDungeonCreation resumes after its timer: it leaves when
\* its token is stale; otherwise it renders the creating screen and, finding no
\* solver.solveCooperative, the "Solver not found" screen, and returns.
CreationRunStep ==
    /\ \E r \in creationRuns :
          /\ r.pc = "scheduled"
          /\ IF app.createDungeonToken # r.token
             THEN /\ creationRuns' = creationRuns \ {r}
                  /\ app' = app
             ELSE IF ~HasSolveCooperative
             THEN /\ creationRuns' = creationRuns \ {r}
                  /\ app' = setScreen(setScreen([app EXCEPT !.creating = r.includeSpecialCards],
                                                "creating"),
                                      "solverNotFound")
             ELSE /\ creationRuns' = (creationRuns \ {r}) \cup {[r EXCEPT !.pc = "awaitingSolver"]}
                  /\ app' = setScreen([app EXCEPT !.creating = r.includeSpecialCards], "creating")
    /\ UNCHANGED <<silentRun, lastCall, argVars, playVars, solveVars>>

\* fillSilentPool up to its await: it returns early, awaits the solver, or throws
\* the TypeError of calling solver.solveCooperative, which is not a function.
fillSilentPool(a, special, token) ==
    IF a.silentSolverToken # token THEN "returned"
    ELSE IF ~shouldRunSilentSolver(a) THEN "returned"
    ELSE IF Len(a.silentPools[PoolKey(special)]) >= SILENT_POOL_LIMIT THEN "returned"
    ELSE IF HasSolveCooperative THEN "awaitingSolver"
    ELSE "threw"

\* The scheduled run of startSilentSolver resumes after its timer.
SilentRunStep ==
    /\ silentRun.pc = "scheduled"
    /\ app # NoApp
    /\ LET base == fillSilentPool(app, FALSE, silentRun.token)
           plus == fillSilentPool(app, TRUE, silentRun.token)
       IN  silentRun' =
               IF app.silentSolverToken # silentRun.token THEN [silentRun EXCEPT !.pc = "done"]
               ELSE IF ~shouldRunSilentSolver(app) THEN silentRun
               ELSE IF base # "returned" THEN [silentRun EXCEPT !.pc = base]
               ELSE IF plus # "returned" THEN [silentRun EXCEPT !.pc = plus]
               ELSE silentRun
    /\ UNCHANGED <<app, creationRuns, lastCall, argVars, playVars, solveVars>>

(***************************************************************************)
(* The values the variables of a part of the model hold while another part *)
(* runs.                                                                   *)
(***************************************************************************)
DefaultMaxNodes == 500000

\* No function of the solver has been called directly.
NoDirectCall == [fn |-> "none"]

\* No action was applied yet.
NonePlayed == [flee |-> 0, other |-> 0]

PlayIdle ==
    /\ state = NoState
    /\ prevState = NoState
    /\ lastAction = NoAction
    /\ terminal = NoTerminal
    /\ played = NonePlayed
    /\ call = NoDirectCall

SolveIdle ==
    /\ maxNodes = DefaultMaxNodes
    /\ returnPath = FALSE
    /\ timeLimitMs = NoLimit
    /\ pc = "idle"
    /\ initial = NoState
    /\ stack = <<>>
    /\ keyStack = <<>>
    /\ visited = {}
    /\ parent = <<>>
    /\ nodes = 0
    /\ startMs = NoTime
    /\ now = 0
    /\ clockRead = FALSE
    /\ result = NoResult
    /\ firstArgs = <<>>
    /\ firstResult = NoResult
    /\ solvedBetween = FALSE

AppIdle ==
    /\ app = NoApp
    /\ creationRuns = {}
    /\ silentRun = NoRun
    /\ lastCall = NoCall

(***************************************************************************)
(* Spec: the rules played through, by the solver and by the game.  Either  *)
(* a caller of the solver builds an initial state and applies enumerated   *)
(* actions one at a time until a terminal outcome, or the page is loaded   *)
(* and the player uses the app.                                            *)
(***************************************************************************)
InitPlay ==
    /\ \E in \in Inputs :
          /\ deck = in.deck
          /\ includeSpecialCards = in.includeSpecialCards
          /\ startingHp = in.startingHp
    /\ state = makeInitialState(deck, includeSpecialCards, startingHp)
    /\ prevState = NoState
    /\ lastAction = NoAction
    /\ terminal = NoTerminal
    /\ played = NonePlayed
    /\ call = NoDirectCall
    /\ SolveIdle
    /\ AppIdle

\* The page is loaded: createScoundrelApp has returned the app object.
InitApp ==
    /\ deck = <<>>
    /\ includeSpecialCards = TRUE
    /\ startingHp = 20
    /\ PlayIdle
    /\ SolveIdle
    /\ app = ConstructedApp
    /\ creationRuns = {}
    /\ silentRun = NoRun
    /\ lastCall = NoCall

Init == InitPlay \/ InitApp

\* Apply one enumerated action, as the search loop does for a live state.
Play ==
    /\ state # NoState
    /\ ~isDeadState(state)
    /\ ~isWinState(state)
    /\ \E k \in 1..Len(enumerateActions(state)) :
          LET action == enumerateActions(state)[k]
              out == applyAction(state, action)
          IN  /\ state' = out.state
              /\ terminal' = out.terminal
              /\ lastAction' = action
              /\ prevState' = state
              /\ played' = IF action.type = "flee" THEN [played EXCEPT !.flee = @ + 1]
                            ELSE [played EXCEPT !.other = @ + 1]
    /\ call' = NoDirectCall
    /\ UNCHANGED <<argVars, solveVars, appVars>>

Next ==
    \/ Play
    \/ Start
    \/ SelectStartGame
    \/ SelectMenu
    \/ SelectSkip
    \/ SelectRestart
    \/ FleeRoom
    \/ SelectSlot
    \/ SelectFight
    \/ SelectBack
    \/ CreationRunStep
    \/ SilentRunStep

Spec == Init /\ [][Next]_vars

(***************************************************************************)
(* SpecDirect: applyAction called directly.  A caller plays a dungeon      *)
(* through as in Spec and, at any state on the way, calls applyAction on   *)
(* it with an action of its own making, enumerated for the state or not.   *)
(* The call leaves the play-through where it is; call records what came    *)
(* back and what the caller then finds in the arrays of the state it       *)
(* passed.                                                                 *)
(***************************************************************************)
MaxDirectDeckLen == 3

\* Two decks that leave a card under the first room.
LongDecks ==
    {<<Card("clubs", 2), Card("diamonds", 4), Card("hearts", 3), Card("spades", 14),
       Card("hearts", 11)>>,
     <<Card("diamonds", 11), Card("spades", 2), Card("clubs", 2), Card("diamonds", 4),
       Card("spades", 14)>>}

DirectInputs ==
    {[deck |-> d, includeSpecialCards |-> TRUE, startingHp |-> 20] :
        d \in DistinctSeqs(DeckCards, MaxDirectDeckLen) \cup LongDecks}

\* Every action object of the shapes applyAction tells apart, on slots 0..3; "rest"
\* is a type it has no branch for.
AllActions ==
    {FleeAction}
    \cup {EnemyAction(i, method) : i \in 0..3, method \in {"weapon", "fist"}}
    \cup {SlotAction(type, i) : type \in {"weapon", "toolkit", "potion", "rest"}, i \in 0..3}

\* Mutant of SlicedFields: the clone shares the deck array of the state it copies.
SlicedFieldsWithoutDeck == {"table", "weaponKills"}

\* The array fields cloneState copies with slice(); the other fields are primitives.
SlicedFields == {"deck", "table", "weaponKills"}

\* What the arrays the clone starts with hold when applyAction returns: the deck is
\* only ever changed in place (unshift, pop); the table array is changed in place
\* except by a flee, which assigns a new array; the kills array is pushed to and
\* popped from in place, and an equip assigns a new array.
DeckInPlace(s0, out) == IF out.state # NoState THEN out.state.deck ELSE s0.deck

TableInPlace(s0, action, out) ==
    IF action.type = "flee" \/ s0.table[action.slot + 1] = NoCard THEN s0.table
    ELSE IF out.state # NoState THEN out.state.table
    ELSE [s0.table EXCEPT ![action.slot + 1] = NoCard]

KillsInPlace(s0, action, out) ==
    IF action.type = "flee" \/ s0.table[action.slot + 1] = NoCard THEN s0.weaponKills
    ELSE IF action.type = "enemy" /\ action.method = "weapon"
            /\ out # Sentinel /\ out.terminal # "dead"
    THEN Append(s0.weaponKills, s0.table[action.slot + 1].rank)
    ELSE IF action.type = "toolkit" /\ s0.weaponRank > 0 /\ Len(s0.weaponKills) > 0
    THEN SubSeq(s0.weaponKills, 1, Len(s0.weaponKills) - 1)
    ELSE s0.weaponKills

\* The arrays of s0 after applyAction(s0, action) returned out: an array the clone
\* copied is as it was, an array the clone shares has the clone's changes.
ArraysOfParent(s0, action, out) ==
    [deck |-> IF "deck" \in SlicedFields THEN s0.deck ELSE DeckInPlace(s0, out),
     table |-> IF "table" \in SlicedFields THEN s0.table ELSE TableInPlace(s0, action, out),
     weaponKills |-> IF "weaponKills" \in SlicedFields THEN s0.weaponKills
                     ELSE KillsInPlace(s0, action, out)]

\* The array fields in which the returned state holds the very array s0 holds.
SharedArrays(s0, action, out) ==
    IF out.state = NoState THEN {}
    ELSE {f \in {"deck", "table", "weaponKills"} \ SlicedFields :
             /\ f = "table" => action.type # "flee"
             /\ f = "weaponKills" => action.type # "weapon"}

InitDirect ==
    /\ \E in \in DirectInputs :
          /\ deck = in.deck
          /\ includeSpecialCards = in.includeSpecialCards
          /\ startingHp = in.startingHp
    /\ state = makeInitialState(deck, includeSpecialCards, startingHp)
    /\ prevState = NoState
    /\ lastAction = NoAction
    /\ terminal = NoTerminal
    /\ played = NonePlayed
    /\ call = NoDirectCall
    /\ SolveIdle
    /\ AppIdle

\* applyAction(state, action) for any action object, once at each position of the
\* play-through.
ApplyActionCall ==
    /\ state # NoState
    /\ call = NoDirectCall
    /\ \E action \in AllActions :
          LET out == applyAction(state, action)
          IN  call' = [fn |-> "applyAction",
                       s0 |-> state,
                       action |-> action,
                       out |-> out,
                       arrays |-> ArraysOfParent(state, action, out),
                       shared |-> SharedArrays(state, action, out)]
    /\ UNCHANGED <<state, prevState, lastAction, terminal, played, argVars, solveVars, appVars>>

NextDirect == Play \/ ApplyActionCall

SpecDirect == InitDirect /\ [][NextDirect]_vars

(***************************************************************************)
(* SpecFn: the pure functions of the solver called one at a time on        *)
(* arguments from bounded sets.  call holds the arguments and what came    *)
(* back.                                                                   *)
(***************************************************************************)
Suits == {SUIT.hearts, SUIT.diamonds, SUIT.clubs, SUIT.spades}

\* The 52 cards: 4 suits, ranks 2..14.
Cards52 == {Card(suit, rank) : suit \in Suits, rank \in 2..14}

\* The ids decodeCard is called on: those below 4 * 16.
CardIds == 0..63

InitFn ==
    /\ deck = <<>>
    /\ includeSpecialCards = TRUE
    /\ startingHp = 20
    /\ PlayIdle
    /\ SolveIdle
    /\ AppIdle

\* A function is called once: the functions keep nothing between calls.
Uncalled == call = NoDirectCall

FnFrame == UNCHANGED <<state, prevState, lastAction, terminal, played, argVars, solveVars, appVars>>

EncodeCardCall ==
    /\ Uncalled
    /\ \E card \in Cards52 \cup {NoCard} :
          call' = [fn |-> "encodeCard", card |-> card, id |-> encodeCard(card)]
    /\ FnFrame

DecodeCardCall ==
    /\ Uncalled
    /\ \E id \in CardIds :
          call' = [fn |-> "decodeCard", id |-> id, card |-> decodeCard(id)]
    /\ FnFrame

\* States for stateKey: every combination of a few values of each field it reads, with
\* tables of 4 slots; the two tables differ in the order of two slots, the decks in
\* length and in order.
KeyStates ==
    [hp : {2, 12},
     weaponRank : {0, 2},
     potionUsedThisRoom : BOOLEAN,
     interactionsThisRoom : {0, 1},
     fledLastRoom : BOOLEAN,
     weaponKills : {<<>>, <<2>>, <<12, 2>>},
     table : {<<Card("clubs", 2), NoCard, Card("hearts", 3), NoCard>>,
              <<NoCard, Card("clubs", 2), Card("hearts", 3), NoCard>>},
     deck : {<<>>,
             <<Card("spades", 14), Card("diamonds", 4)>>,
             <<Card("diamonds", 4), Card("spades", 14)>>}]

\* stateKey(a) and stateKey(b), as the visited set compares them.
StateKeyCall ==
    /\ Uncalled
    /\ \E a \in KeyStates, b \in KeyStates :
          call' = [fn |-> "stateKey", a |-> a, b |-> b,
                   keyA |-> stateKey(a), keyB |-> stateKey(b)]
    /\ FnFrame

\* The five role predicates on one card.
RoleCall ==
    /\ Uncalled
    /\ \E card \in Cards52 :
          call' = [fn |-> "role", card |-> card,
                   isEnemy |-> isEnemy(card),
                   isWeapon |-> isWeapon(card),
                   isRepairToolkit |-> isRepairToolkit(card),
                   isHealingPotion |-> isHealingPotion(card),
                   isPoisonPotion |-> isPoisonPotion(card)]
    /\ FnFrame

\* States for enumerateActions: each of the 52 cards in each slot, alone on the table
\* or among three other cards, without a weapon, with a fresh one and with one that
\* has a kill.
RoleStates ==
    {[hp |-> 20,
      deck |-> <<>>,
      table |-> [j \in 1..4 |-> IF j = i THEN card ELSE IF alone THEN NoCard ELSE other],
      weaponRank |-> w.rank,
      weaponKills |-> w.kills,
      potionUsedThisRoom |-> FALSE,
      interactionsThisRoom |-> 1,
      fledLastRoom |-> FALSE] :
        card \in Cards52, i \in 1..4, alone \in BOOLEAN,
        other \in {Card("spades", 7)},
        w \in {[rank |-> 0, kills |-> <<>>], [rank |-> 5, kills |-> <<>>],
               [rank |-> 5, kills |-> <<7>>]}}

EnumerateCall ==
    /\ Uncalled
    /\ \E s \in RoleStates :
          call' = [fn |-> "enumerateActions", s |-> s, actions |-> enumerateActions(s)]
    /\ FnFrame

MaxInitDeckLen == 5

\* Cards on both sides of the rank that base mode filters at, and two enemies.
InitCards ==
    {Card("clubs", 2), Card("spades", 14), Card("diamonds", 10), Card("diamonds", 11),
     Card("hearts", 10), Card("hearts", 11)}

\* The copies between the caller's array and the array the draws pop: the one
\* filterDeckForMode returns (deck.slice() or deck.filter(...)) and filtered.slice().
CopiesBeforeDraw == {"filterDeckForMode", "filtered.slice"}

\* The caller's deck array after makeInitialState(d, ...) has drawn its four cards.
CallerDeckAfter(d, special) ==
    IF CopiesBeforeDraw # {} THEN d ELSE DrawFour(filterDeckForMode(d, special)).deck

MakeInitialStateCall ==
    /\ Uncalled
    /\ \E d \in DistinctSeqs(InitCards, MaxInitDeckLen), special \in BOOLEAN, hp \in {7, 20} :
          call' = [fn |-> "makeInitialState", deck |-> d, includeSpecialCards |-> special,
                   startingHp |-> hp,
                   state |-> makeInitialState(d, special, hp),
                   deckAfter |-> CallerDeckAfter(d, special)]
    /\ FnFrame

(***************************************************************************)
(* The integer-packed card module: a card is suit * 15 + rank.  A number   *)
(* its division returns is kept as its whole part and its fifteenths.      *)
(***************************************************************************)
SPADES == 1

HEARTS == 2

DIAMONDS == 3

CLUBS == 4

PackedSuits == {SPADES, HEARTS, DIAMONDS, CLUBS}

PackedRanks == 2..14

\* card / 15 for a card that is not negative.
DividedBy15(n) == [whole |-> n \div 15, fifteenths |-> n % 15]

\* x == n for a number x of a division and an integer n.
NumberEquals(x, n) == x.whole = n /\ x.fifteenths = 0

\* true and false as the numbers a comparison makes of them.
ToNumber(b) == IF b THEN 1 ELSE 0

packed_card(suit, rank) == suit * 15 + rank

packed_suit(card) == DividedBy15(card)

packed_rank(card) == card % 15

packed_isEnemy(card) ==
    NumberEquals(packed_suit(card), SPADES) \/ NumberEquals(packed_suit(card), CLUBS)

packed_isWeapon(card) ==
    /\ NumberEquals(packed_suit(card), DIAMONDS)
    /\ 2 <= packed_rank(card)
    /\ packed_rank(card) <= 10

\* 11 <= rank(card) <= 14 compares the outcome of 11 <= rank(card) with 14.
packed_isRepairKit(card) ==
    /\ NumberEquals(packed_suit(card), DIAMONDS)
    /\ ToNumber(11 <= packed_rank(card)) <= 14

\* card, and suit, rank and the three role predicates on what it returns.
PackedCardCall ==
    /\ Uncalled
    /\ \E s \in PackedSuits, r \in PackedRanks :
          call' = [fn |-> "packedCard", suit |-> s, rank |-> r,
                   card |-> packed_card(s, r),
                   suitOfCard |-> packed_suit(packed_card(s, r)),
                   rankOfCard |-> packed_rank(packed_card(s, r)),
                   isEnemy |-> packed_isEnemy(packed_card(s, r)),
                   isWeapon |-> packed_isWeapon(packed_card(s, r)),
                   isRepairKit |-> packed_isRepairKit(packed_card(s, r))]
    /\ FnFrame

NextFn ==
    \/ EncodeCardCall
    \/ DecodeCardCall
    \/ RoleCall
    \/ EnumerateCall
    \/ MakeInitialStateCall
    \/ PackedCardCall
    \/ StateKeyCall

SpecFn == InitFn /\ [][NextFn]_vars

(***************************************************************************)
(* SpecSolve: one invocation of solve on every deck and option set of the  *)
(* bounded input space.                                                    *)
(***************************************************************************)
SolveCards ==
    {Card("clubs", 2), Card("spades", 14), Card("diamonds", 4), Card("hearts", 3),
     Card("hearts", 11)}

\* The decks of exactly four rank-14 enemies, in any mix of clubs and spades.
FourAcesDecks ==
    {<<Card(a, 14), Card(b, 14), Card(c, 14), Card(d, 14)>> :
        a \in {"clubs", "spades"}, b \in {"clubs", "spades"},
        c \in {"clubs", "spades"}, d \in {"clubs", "spades"}}

SolveDecks == DistinctSeqs(SolveCards, MaxSolveDeckLen) \cup FourAcesDecks

SolveStartingHps == {0, 7, 20}

Options(special, mn, rp, tl) ==
    [includeSpecialCards |-> special, maxNodes |-> mn, returnPath |-> rp, timeLimitMs |-> tl]

\* The option sets a caller passes: the defaults, a requested path, classic mode,
\* a small node budget, a time limit, and both budgets at once.
OptionProfiles ==
    {Options(TRUE, DefaultMaxNodes, FALSE, NoLimit),
     Options(TRUE, DefaultMaxNodes, TRUE, NoLimit),
     Options(FALSE, DefaultMaxNodes, TRUE, NoLimit),
     Options(TRUE, SmallMaxNodes, FALSE, NoLimit),
     Options(FALSE, DefaultMaxNodes, FALSE, Ms(SmallTimeLimitMs)),
     Options(TRUE, SmallMaxNodes, TRUE, Ms(SmallTimeLimitMs))}

InitSolve ==
    /\ deck = <<>>
    /\ includeSpecialCards = TRUE
    /\ startingHp = 20
    /\ PlayIdle
    /\ SolveIdle
    /\ AppIdle

\* A call of solve with a deck, a starting hp and options from the given sets.
SolveCall(decks, hps, profiles) ==
    /\ \E d \in decks, hp \in hps, o \in profiles :
            SolveEntry(d, o.includeSpecialCards, hp, o.maxNodes, o.returnPath, o.timeLimitMs)
    /\ UNCHANGED <<playVars, appVars>>

\* One iteration of the while loop.
IterateBody ==
    /\ pc = "loop"
    /\ stack # <<>>
    /\ SearchIteration
    /\ UNCHANGED <<argVars, optVars, playVars, appVars>>

\* The loop condition stack.length > 0 fails.
ReturnFalseBody ==
    /\ pc = "loop"
    /\ stack = <<>>
    /\ SearchExhausted
    /\ UNCHANGED <<argVars, optVars, playVars, appVars>>

Solve ==
    /\ pc = "idle"
    /\ SolveCall(SolveDecks, SolveStartingHps, OptionProfiles)
    /\ UNCHANGED callerVars

Iterate == IterateBody /\ UNCHANGED callerVars

ReturnFalse == ReturnFalseBody /\ UNCHANGED callerVars

NextSolve == Solve \/ Iterate \/ ReturnFalse

SpecSolve == InitSolve /\ [][NextSolve]_vars

(***************************************************************************)
(* SpecRepeat: a caller invokes solve again and again on one solver        *)
(* instance, with no time limit, and remembers the arguments and the       *)
(* verdict of its first invocation.                                        *)
(***************************************************************************)
RepeatCards == {Card("spades", 14), Card("hearts", 3), Card("hearts", 11)}

RepeatDecks == DistinctSeqs(RepeatCards, MaxRepeatDeckLen)

RepeatStartingHps == {7}

RepeatProfiles ==
    {Options(TRUE, DefaultMaxNodes, TRUE, NoLimit),
     Options(TRUE, SmallMaxNodes, FALSE, NoLimit)}

Args == <<deck, includeSpecialCards, startingHp, maxNodes, returnPath, timeLimitMs>>

\* The caller's bookkeeping after a step of solve.
Remember ==
    IF pc' = "done" /\ firstResult = NoResult
    THEN /\ firstArgs' = Args'
         /\ firstResult' = result'
         /\ UNCHANGED solvedBetween
    ELSE /\ solvedBetween' = (solvedBetween \/ (pc' = "done" /\ Args' # firstArgs))
         /\ UNCHANGED <<firstArgs, firstResult>>

RepeatSolve ==
    /\ pc \in {"idle", "done"}
    /\ SolveCall(RepeatDecks, RepeatStartingHps, RepeatProfiles)
    /\ Remember

RepeatIterate == IterateBody /\ Remember

RepeatReturnFalse == ReturnFalseBody /\ Remember

NextRepeat == RepeatSolve \/ RepeatIterate \/ RepeatReturnFalse

SpecRepeat == InitSolve /\ [][NextRepeat]_vars

(***************************************************************************)
(* Reference searches for the claims about solve: plain recursion over     *)
(* enumerateActions and applyAction, with no memoization.                  *)
(***************************************************************************)
\* Some sequence of enumerated actions from the live state s ends in terminal "win".
RECURSIVE CanWin(_)
CanWin(s) ==
    \E k \in 1..Len(enumerateActions(s)) :
        LET out == applyAction(s, enumerateActions(s)[k])
        IN  \/ out.terminal = "win"
            \/ (out.state # NoState /\ CanWin(out.state))

CardsOnTable(s) == Cardinality({i \in 1..4 : s.table[i] # NoCard})

\* Some sequence of enumerated actions from the live state s uses up the last card
\* of the dungeon (deck empty, one card on the table, that card acted on) and every
\* state on the way has hp > 0.
RECURSIVE CanExhaust(_)
CanExhaust(s) ==
    /\ s.hp > 0
    /\ \E k \in 1..Len(enumerateActions(s)) :
          LET action == enumerateActions(s)[k]
              out == applyAction(s, action)
          IN  \/ /\ out.terminal = "win"
                 /\ action.type # "flee"
                 /\ Len(s.deck) = 0
                 /\ CardsOnTable(s) = 1
                 /\ s.table[action.slot + 1] # NoCard
              \/ (out.state # NoState /\ CanExhaust(out.state))

\* Replaying path from s: every action is enumerated for the state it is applied to,
\* every action but the last yields a next state, and the last yields "win".
RECURSIVE ReplayWins(_, _)
ReplayWins(s, path) ==
    /\ Len(path) > 0
    /\ \E k \in 1..Len(enumerateActions(s)) : enumerateActions(s)[k] = Head(path)
    /\ LET out == applyAction(s, Head(path))
       IN  IF Len(path) = 1 THEN out.terminal = "win"
           ELSE /\ out.terminal = NoTerminal
                /\ out.state # NoState
                /\ ReplayWins(out.state, Tail(path))

Returned == pc = "done"

(***************************************************************************)
(* Claims about solve, under SpecSolve.                                    *)
(***************************************************************************)
\* C1 Exhaustiveness: when solve returns clearable:false for an initial state with
\* hp > 0, no sequence of enumerated actions from the initial state reaches
\* terminal "win" (checked against the reference search CanWin).
C1_Exhaustive ==
    (Returned /\ result.clearable = "false" /\ initial.hp > 0)
        => (~isWinState(initial) /\ ~CanWin(initial))

\* C1 witness: clearable:false returned for a live deck of more than four cards,
\* after a search that backtracked over visited states.
C1_Witness ==
    /\ Returned
    /\ result.clearable = "false"
    /\ initial.hp > 0
    /\ Len(initial.deck) > 0
    /\ Cardinality(visited) > 4

\* C2 Soundness: when solve returns clearable:true, some sequence of enumerated
\* actions from the initial state reaches full exhaustion (deck and table empty)
\* with hp above 0 all the way.
C2_Sound ==
    (Returned /\ result.clearable = "true")
        => (isWinState(initial) \/ CanExhaust(initial))

\* C2 witness: clearable:true found by the search loop several actions deep.
C2_Witness ==
    /\ Returned
    /\ result.clearable = "true"
    /\ Len(stack) > 3

\* C3 Path validity: with returnPath, a clearable:true verdict carries a path whose
\* replay from the initial state stays legal and live and wins exactly at its last
\* action; the path is empty only when the initial state is already a win.
C3_PathValid ==
    (Returned /\ returnPath /\ result.clearable = "true")
        => /\ result.path # UndefinedPath
           /\ IF result.path = <<>> THEN isWinState(initial)
              ELSE ReplayWins(initial, result.path)

\* C3 witness: a returned path of at least three actions that contains a flee.
C3_Witness ==
    /\ Returned
    /\ returnPath
    /\ result.clearable = "true"
    /\ Len(result.path) >= 3
    /\ \E i \in 1..Len(result.path) : result.path[i].type = "flee"

\* C4 Verdict discipline: clearable:null comes only with reason time_limit or
\* node_limit, a budget abort never reports clearable:false, and clearable:false is
\* returned only with the frame stack empty or for an initial state that is dead.
C4_VerdictDiscipline ==
    Returned =>
        /\ result.clearable \in {"true", "false", "null"}
        /\ (result.clearable = "null") <=> (result.reason \in {"time_limit", "node_limit"})
        /\ (result.clearable = "false") =>
               \/ (result.reason = "dead_start" /\ isDeadState(initial))
               \/ (result.reason = Undefined /\ stack = <<>>)

\* C4 witness: a node-limit abort with unexplored frames left on the stack.
C4_Witness ==
    /\ Returned
    /\ result.clearable = "null"
    /\ result.reason = "node_limit"
    /\ Len(stack) > 1

\* C5 Node budget: an iteration that passes the time check raises the counter by
\* exactly one, the counter never decreases during an invocation, node_limit is
\* returned by exactly the iterations that start with the counter above maxNodes,
\* so at most maxNodes + 1 iterations do search work.
C5_StepProperty ==
    (pc = "loop" /\ stack # <<>>) =>
        /\ (result'.reason # "time_limit") => nodes' = nodes + 1
        /\ nodes' >= nodes
        /\ (result'.reason # "time_limit") =>
              ((nodes > maxNodes) <=>
                  (pc' = "done" /\ result'.clearable = "null" /\ result'.reason = "node_limit"))

C6_StepProperty ==
    (pc = "loop" /\ stack # <<>> /\ startMs # NoTime) =>
        ((now' - startMs.ms >= timeLimitMs.ms) <=>
            (pc' = "done" /\ result'.clearable = "null" /\ result'.reason = "time_limit"))

\* C6 Time budget, over whole runs: every step keeps C6_StepProperty, a run with no
\* limit never reads the clock, and a run with a limit has read its start time.
C6_TimeBudget ==
    /\ [][C6_StepProperty]_vars
    /\ [](timeLimitMs = NoLimit => (~clockRead /\ startMs = NoTime /\ result.reason # "time_limit"))
    /\ []((timeLimitMs # NoLimit /\ pc = "loop") => (clockRead /\ startMs # NoTime))

\* C6 witness: a time-limit abort at a loop head where the node budget is exceeded too.
C6_Witness ==
    /\ Returned
    /\ result.reason = "time_limit"
    /\ nodes > maxNodes

(***************************************************************************)
(* Claims about repeated invocations, under SpecRepeat.                    *)
(***************************************************************************)
\* C7 Determinism and isolation: an invocation with the arguments of the caller's
\* first invocation (no time limit) returns the first invocation's clearable value
\* and node count, whatever was solved in between; and every invocation starts its
\* loop with an empty visited set and a parent map holding at most its own root.
C7_Deterministic ==
    /\ (Returned /\ firstResult # NoResult /\ Args = firstArgs) =>
           /\ result.clearable = firstResult.clearable
           /\ result.nodes = firstResult.nodes
    /\ (pc = "loop" /\ nodes = 0) =>
           /\ visited = {}
           /\ DOMAIN parent \subseteq {stateKey(initial)}

\* C7 witness: the first invocation's arguments solved again, to the end of the
\* search, after an invocation with other arguments.
C7_Witness ==
    /\ Returned
    /\ firstResult # NoResult
    /\ Args = firstArgs
    /\ solvedBetween
    /\ result.clearable = "false"
    /\ result.nodes >= 2

(***************************************************************************)
(* Claims about the rules and the app, under Spec.                         *)
(***************************************************************************)
\* The solver state with the fields of the game g: the weapon and the kills by rank.
StateOfGame(g) ==
    [hp |-> g.hp,
     deck |-> g.deck,
     table |-> g.table,
     weaponRank |-> IF g.weapon = NoCard THEN 0 ELSE g.weapon.rank,
     weaponKills |-> [i \in 1..Len(g.weaponKills) |-> g.weaponKills[i].rank],
     potionUsedThisRoom |-> g.potionUsedThisRoom,
     interactionsThisRoom |-> g.interactionsThisRoom,
     fledLastRoom |-> g.fledLastRoom]

\* C8 Cooperative cancellation: the solver exposes solveCooperative, so every run of
\* the app that comes to its solver call finds the function and goes on to await its
\* verdict: no run ends on the "Solver not found" screen or in a TypeError.
C8_CooperativeExposed ==
    app # NoApp =>
        /\ app.screen # "solverNotFound"
        /\ silentRun.pc # "threw"

\* C9 HP and table bounds: in the state makeInitialState builds, whatever startingHp
\* the caller passes, and in every state applyAction reaches from it, 0 <= hp <= 20
\* and the table has exactly 4 slots, each a card or empty.
C9_HpAndTableBounds ==
    state # NoState =>
        /\ 0 <= state.hp
        /\ state.hp <= 20
        /\ Len(state.table) = 4
        /\ \A i \in 1..4 : state.table[i] = NoCard \/ state.table[i].rank \in 2..14

\* C10 No consecutive flee: enumerateActions on the state a flee returned holds no
\* flee; flee is enumerated only with no interaction yet in the room, fledLastRoom
\* false and an occupied slot; and a call of the game's fleeRoom after a flee or
\* after an interaction in the room changes nothing.
C10_NoConsecutiveFlee ==
    /\ (state # NoState /\ lastAction.type = "flee") =>
           \A k \in 1..Len(enumerateActions(state)) : enumerateActions(state)[k].type # "flee"
    /\ state # NoState =>
           \A k \in 1..Len(enumerateActions(state)) :
               enumerateActions(state)[k].type = "flee" =>
                   /\ state.interactionsThisRoom = 0
                   /\ ~state.fledLastRoom
                   /\ \E i \in 1..4 : state.table[i] # NoCard
    /\ (/\ lastCall.handler = "fleeRoom"
        /\ lastCall.before.game
        /\ (lastCall.before.fledLastRoom \/ lastCall.before.interactionsThisRoom # 0)) =>
           ~lastCall.changed

\* C10 witness: the player has fled into a room with cards and calls fleeRoom again;
\* the call is refused, and the enumerator lists actions for the same state, none a flee.
C10_Witness ==
    /\ OnScreen("room")
    /\ lastCall.handler = "fleeRoom"
    /\ lastCall.before.fledLastRoom
    /\ lastCall.before.interactionsThisRoom = 0
    /\ app.game.fledLastRoom
    /\ app.game.interactionsThisRoom = 0
    /\ Len(enumerateActions(StateOfGame(app.game))) > 0
    /\ \A k \in 1..Len(enumerateActions(StateOfGame(app.game))) :
           enumerateActions(StateOfGame(app.game))[k].type # "flee"

(***************************************************************************)
(* Claims about single actions of the rules.  After a Play step prevState  *)
(* is the state acted on, lastAction the action, and state and terminal    *)
(* what applyAction returned.                                              *)
(***************************************************************************)
Enumerated(s, action) ==
    \E k \in 1..Len(enumerateActions(s)) : enumerateActions(s)[k] = action

\* The legality the claim states, written on the fields of a state.
KillLegal(s, rank) ==
    /\ s.weaponRank > 0
    /\ Len(s.weaponKills) = 0 \/ rank < s.weaponKills[Len(s.weaponKills)]

\* C11 Weapon-kill legality: a weapon fight is enumerated for the enemy in a slot
\* exactly when a weapon is equipped and either it has no kills or the enemy's rank is
\* strictly less than its last kill; an enemy of equal rank is never weapon-fightable,
\* and no weapon fight is enumerated without a weapon.  The game offers the weapon on
\* its enemy choice by the same rule.
C11_WeaponKillLegality ==
    /\ state # NoState =>
          \A i \in 0..3 :
              LET card == state.table[i + 1]
              IN  /\ Enumerated(state, EnemyAction(i, "weapon")) <=>
                        (card # NoCard /\ isEnemy(card) /\ KillLegal(state, card.rank))
                  /\ (card # NoCard /\ isEnemy(card) /\ Len(state.weaponKills) > 0
                        /\ card.rank = state.weaponKills[Len(state.weaponKills)])
                        => ~Enumerated(state, EnemyAction(i, "weapon"))
                  /\ state.weaponRank = 0 => ~Enumerated(state, EnemyAction(i, "weapon"))
    /\ OnScreen("enemyChoice") =>
          (app_weaponAllowed(app.game, app.pending.enemyCard) <=>
              KillLegal(StateOfGame(app.game), app.pending.enemyCard.rank))

\* An equipped weapon with a kill faces an enemy of that kill's rank.
C11_Witness ==
    /\ state # NoState
    /\ state.weaponRank > 0
    /\ Len(state.weaponKills) > 0
    /\ \E i \in 1..4 :
          /\ state.table[i] # NoCard
          /\ isEnemy(state.table[i])
          /\ state.table[i].rank = state.weaponKills[Len(state.weaponKills)]

\* A state in the middle of a game: alive, with a card left in the deck or on the table.
MidGame(s) == s.hp >= 1 /\ (Len(s.deck) > 0 \/ TableSome(s.table))

\* What applyAction returns for the k-th enumerated action of s.
Outcome(s, k) == applyAction(s, enumerateActions(s)[k])

\* C12 Terminal states are final and exclusive: when applyAction reports "win" or
\* "dead" it returns no next state; a next state it returns is mid-game (hp at least 1
\* and a card in the deck or on the table); no state is both a win and a dead state;
\* and every state on the search stack above the initial one is neither, so the search
\* never applies an action to a terminal outcome.
C12_TerminalFinal ==
    /\ initial # NoState => ~(isWinState(initial) /\ isDeadState(initial))
    /\ \A i \in 1..Len(stack) :
          LET s == stack[i].state
          IN  /\ s # NoState
              /\ ~(isWinState(s) /\ isDeadState(s))
              /\ i > 1 => ~isWinState(s) /\ ~isDeadState(s) /\ MidGame(s)
    /\ stack # <<>> =>
          \A k \in 1..Len(enumerateActions(Top(stack).state)) :
              LET out == Outcome(Top(stack).state, k)
              IN  /\ out.terminal \in {"win", "dead"} => out.state = NoState
                  /\ out.state # NoState =>
                        /\ out.terminal = NoTerminal
                        /\ MidGame(out.state)
                        /\ ~isWinState(out.state) /\ ~isDeadState(out.state)

\* A state below the root of the search from which one action wins and another dies.
C12_Witness ==
    /\ Len(stack) > 1
    /\ \E k, j \in 1..Len(enumerateActions(Top(stack).state)) :
          /\ Outcome(Top(stack).state, k).terminal = "win"
          /\ Outcome(Top(stack).state, j).terminal = "dead"

\* A Play step has acted on a slot of prevState.
ActedOnSlot == prevState # NoState /\ lastAction # NoAction /\ lastAction.type # "flee"

ActedCard == prevState.table[lastAction.slot + 1]

\* The card acted on was the last one of the dungeon.
WasLastCard ==
    /\ Len(prevState.deck) = 0
    /\ \A i \in 1..4 : i # lastAction.slot + 1 => prevState.table[i] = NoCard

\* The hp the acted-on state loses to the action, by the rules of the claim: the
\* enemy's rank by fist, the rank above the weapon's by weapon, 10 to a poison that
\* does not fizzle.
HpLost ==
    IF lastAction.type = "enemy"
    THEN IF lastAction.method = "weapon"
         THEN Max(0, ActedCard.rank - prevState.weaponRank)
         ELSE ActedCard.rank
    ELSE IF lastAction.type = "potion" /\ isPoisonPotion(ActedCard)
            /\ ~prevState.potionUsedThisRoom
    THEN 10
    ELSE 0

\* C13 Death precedes exhaustion: an enemy fight, or a poison potion that does not
\* fizzle, that brings hp to 0 or below yields "dead", also when the card was the last
\* one of the dungeon; "win" is reported only when hp after the action is above 0.
C13_DeathPrecedesExhaustion ==
    ActedOnSlot =>
        /\ prevState.hp - HpLost <= 0 => terminal = "dead" /\ state = NoState
        /\ terminal = "win" => prevState.hp - HpLost > 0

\* A lethal action on the last card of the dungeon.
C13_Witness ==
    /\ ActedOnSlot
    /\ WasLastCard
    /\ prevState.hp - HpLost <= 0
    /\ terminal = "dead"

\* The game is on its room screen with one card left in the whole dungeon, in slot i.
GameLastCard(i) ==
    /\ OnScreen("room")
    /\ Len(app.game.deck) = 0
    /\ app.game.table[i + 1] # NoCard
    /\ \A j \in 1..4 : j # i + 1 => app.game.table[j] = NoCard

\* The step is the game's handling of a slot of its room.
GameSlotStep == OnScreen("room") /\ app' # app /\ lastCall'.handler = "interactWithSlot"

C14_SolverRule ==
    (ActedOnSlot /\ WasLastCard /\ lastAction.type = "potion"
        /\ isHealingPotion(ActedCard))
        => terminal = "win" /\ state = NoState

C14_GameStep ==
    \A i \in 0..3 :
        (GameSlotStep /\ GameLastCard(i) /\ isPotion(app.game.table[i + 1])) =>
            /\ app'.screen = "clear"
            /\ app'.score = app.game.hp + app.game.table[i + 1].rank
            /\ app'.game.hp = app.game.hp
            /\ app'.game.room = app.game.room
            /\ app'.game.interactionsThisRoom = app.game.interactionsThisRoom
            /\ app'.game.potionUsedThisRoom = app.game.potionUsedThisRoom

\* C14 Last-card healing potion: with the deck empty and a healing potion the only
\* card on the table, using it wins at once whatever potionUsedThisRoom is (the rule
\* comes before the fizzle check), without changing hp and without the room-advance
\* step; the game scores the win as hp plus the potion's rank.
C14_LastCardHealing == [](C14_SolverRule) /\ [][C14_GameStep]_vars

\* The game was cleared by a last healing potion drunk after another potion of the room.
C14_Witness ==
    /\ OnScreen("clear")
    /\ app.game.lastUsedCard # NoCard
    /\ isPotion(app.game.lastUsedCard)
    /\ app.game.potionUsedThisRoom
    /\ app.score = app.game.hp + app.game.lastUsedCard.rank

\* A Play step drank a poison potion that was the last card of the dungeon.
LastCardPoison ==
    ActedOnSlot /\ WasLastCard /\ lastAction.type = "potion" /\ isPoisonPotion(ActedCard)

\* C15 as stated: a poison potion consumed as strictly the last card of the dungeon
\* does not trigger the bonus-win rule, and the outcome is still a win.
C15_LastCardPoisonWins == LastCardPoison => terminal = "win"

C15_SolverRule ==
    LastCardPoison =>
        /\ state = NoState
        /\ terminal = IF prevState.potionUsedThisRoom \/ prevState.hp > 10
                      THEN "win" ELSE "dead"

C15_GameStep ==
    \A i \in 0..3 :
        (GameSlotStep /\ GameLastCard(i) /\ app_isPoisonPotion(app.game.table[i + 1])) =>
            IF app.game.potionUsedThisRoom \/ app.game.hp > 10
            THEN /\ app'.screen = "clear"
                 /\ app'.game.hp = IF app.game.potionUsedThisRoom THEN app.game.hp
                                   ELSE app.game.hp - 10
                 /\ app'.score = app'.game.hp
                 /\ app'.game.interactionsThisRoom = app.game.interactionsThisRoom + 1
            ELSE /\ app'.screen = "death"
                 /\ app'.game.hp = 0

\* C15 Last-card poison potion, amended: a poison potion consumed as strictly the last
\* card does not trigger the bonus-win rule; when it fizzles or leaves hp above 0 the
\* outcome is a win with zero bonus, reached through the exhaustion check of the
\* room-advance step, and when it takes hp to 0 the outcome is dead.
C15_LastCardPoison == [](C15_SolverRule) /\ [][C15_GameStep]_vars

\* The game was cleared by a last poison potion that took its 10 hp.
C15_Witness ==
    /\ OnScreen("clear")
    /\ app.game.lastUsedCard # NoCard
    /\ app_isPoisonPotion(app.game.lastUsedCard)
    /\ app.game.hp <= 10
    /\ app.score = app.game.hp

\* The cards a state holds: those of its deck and those on its table.
CardsOf(s) == Range(s.deck) \cup {s.table[i] : i \in {j \in 1..4 : s.table[j] # NoCard}}

\* The table of prevState with the acted-on slot cleared.
TableAfterUse == [prevState.table EXCEPT ![lastAction.slot + 1] = NoCard]

\* The room-advance step runs its refill after the action of the Play step.
RoomAdvanced == prevState.interactionsThisRoom + 1 >= 3 \/ ~TableSome(TableAfterUse)

\* A Play step drank a potion in a room where one was used already, and the potion
\* was not a healing potion that was the last card.
Fizzled ==
    /\ ActedOnSlot
    /\ lastAction.type = "potion"
    /\ prevState.potionUsedThisRoom
    /\ ~(WasLastCard /\ isHealingPotion(ActedCard))

\* C16 Potion fizzle: a potion used when potionUsedThisRoom is already true (and that
\* is not the last-card healing potion) leaves hp, weaponRank and weaponKills as they
\* were, whether healing or poison; the card still leaves its slot, the use counts as
\* an interaction and the room-advance step runs; potionUsedThisRoom stays true unless
\* the room-advance step resets it.
C16_PotionFizzle ==
    Fizzled =>
        /\ terminal # "dead"
        /\ terminal = "win" <=> WasLastCard
        /\ state = NoState <=> terminal = "win"
        /\ state # NoState =>
              /\ state.hp = prevState.hp
              /\ state.weaponRank = prevState.weaponRank
              /\ state.weaponKills = prevState.weaponKills
              /\ ActedCard \notin CardsOf(state)
              /\ IF RoomAdvanced
                 THEN state.interactionsThisRoom = 0 /\ ~state.potionUsedThisRoom
                 ELSE /\ state.interactionsThisRoom = prevState.interactionsThisRoom + 1
                      /\ state.potionUsedThisRoom
                      /\ state.table = TableAfterUse
                      /\ state.deck = prevState.deck

\* A poison potion fizzled and the room goes on.
C16_Witness ==
    /\ Fizzled
    /\ isPoisonPotion(ActedCard)
    /\ state # NoState
    /\ state.potionUsedThisRoom

\* The number of empty slots of a table before slot i (slots counted from 1).
EmptyBefore(table, i) == Cardinality({j \in 1..(i - 1) : table[j] = NoCard})

\* The table the claim describes after a refill from deck d: cards on the table stay,
\* and the k-th empty slot in slot order takes the k-th card from the deck top, while
\* the deck lasts.
RefilledTable(table, d) ==
    [i \in 1..4 |->
        IF table[i] # NoCard THEN table[i]
        ELSE IF EmptyBefore(table, i) < Len(d) THEN d[Len(d) - EmptyBefore(table, i)]
        ELSE NoCard]

RefilledDeck(table, d) ==
    SubSeq(d, 1, Len(d) - Min(Len(d), Cardinality({j \in 1..4 : table[j] = NoCard})))

\* The room-advance rule between the state b acted on, its table t0 once the acted-on
\* slot is cleared, and the state a that follows; drank says the action was a potion.
RoomAdvanceRule(b, t0, drank, a) ==
    IF b.interactionsThisRoom + 1 >= 3 \/ ~TableSome(t0)
    THEN /\ a.table = RefilledTable(t0, b.deck)
         /\ a.deck = RefilledDeck(t0, b.deck)
         /\ a.interactionsThisRoom = 0
         /\ ~a.potionUsedThisRoom
         /\ ~a.fledLastRoom
    ELSE /\ a.table = t0
         /\ a.deck = b.deck
         /\ a.interactionsThisRoom = b.interactionsThisRoom + 1
         /\ a.potionUsedThisRoom = (b.potionUsedThisRoom \/ drank)
         /\ a.fledLastRoom = b.fledLastRoom

C17_SolverRule ==
    /\ (ActedOnSlot /\ state # NoState) =>
          RoomAdvanceRule(prevState, TableAfterUse, lastAction.type = "potion", state)
    /\ state # NoState => state.interactionsThisRoom \in 0..3
    /\ (app # NoApp /\ app.game # NoGame) => app.game.interactionsThisRoom \in 0..3

\* The step is the game's use of a card of its room after which the room goes on: the
\* card is the one the game records as last used.
GameUseStep ==
    /\ app' # app
    /\ \/ OnScreen("room") /\ lastCall'.handler = "interactWithSlot"
       \/ OnScreen("enemyChoice") /\ lastCall'.handler = "fightEnemy"
    /\ app'.screen = "room"

GameTableAfterUse ==
    [i \in 1..4 |-> IF app.game.table[i] = app'.game.lastUsedCard THEN NoCard
                    ELSE app.game.table[i]]

C17_GameStep ==
    GameUseStep =>
        /\ RoomAdvanceRule(StateOfGame(app.game), GameTableAfterUse,
                           isAnyPotion(app'.game.lastUsedCard), StateOfGame(app'.game))
        /\ app'.game.room = app.game.room +
              (IF app.game.interactionsThisRoom + 1 >= 3 \/ ~TableSome(GameTableAfterUse)
               THEN 1 ELSE 0)

\* C17 Room-advance rule: after every non-flee, non-terminal action
\* interactionsThisRoom goes up by 1; if it then is 3 or more, or no slot is occupied,
\* every empty slot is refilled in slot order 0..3 from the deck top while the deck has
\* cards, cards on the table stay in their slots, and interactionsThisRoom,
\* potionUsedThisRoom and fledLastRoom are reset to 0, false and false; otherwise the
\* table, the deck, potionUsedThisRoom and fledLastRoom stay as the action left them.
\* interactionsThisRoom never exceeds 3.  The game's afterInteraction follows the rule.
C17_RoomAdvance == [](C17_SolverRule) /\ [][C17_GameStep]_vars

\* A third interaction refilled a room from a deck too short to fill every empty slot.
C17_Witness ==
    /\ ActedOnSlot
    /\ state # NoState
    /\ prevState.interactionsThisRoom = 2
    /\ Len(prevState.deck) > 0
    /\ Len(state.deck) = 0
    /\ \E i \in 1..4 : state.table[i] = NoCard
    /\ \E i \in 1..4 : state.table[i] # NoCard /\ TableAfterUse[i] = NoCard

IsCard(c) == c # NoCard

\* The deck the claim describes once the table of b went below it: the table's cards
\* in slot order from the very bottom, then the deck of b (a deck's top is its end).
Restacked(b) == SelectSeq(b.table, IsCard) \o b.deck

\* The flee rule between the state b fled from and the state a that follows.
FleeRule(b, a) ==
    /\ a.table = [i \in 1..4 |-> IF i <= Len(Restacked(b))
                                 THEN Restacked(b)[Len(Restacked(b)) - i + 1]
                                 ELSE NoCard]
    /\ a.deck = SubSeq(Restacked(b), 1, Len(Restacked(b)) - Min(4, Len(Restacked(b))))
    /\ a.fledLastRoom
    /\ a.interactionsThisRoom = 0
    /\ ~a.potionUsedThisRoom
    /\ a.hp = b.hp
    /\ a.weaponRank = b.weaponRank
    /\ a.weaponKills = b.weaponKills

Fled == prevState # NoState /\ lastAction # NoAction /\ lastAction.type = "flee"

C18_SolverRule ==
    Fled => terminal = NoTerminal /\ state # NoState /\ FleeRule(prevState, state)

\* The step is a flee of the game that went through.
GameFleeStep == OnScreen("room") /\ app' # app /\ lastCall'.handler = "fleeRoom"

C18_GameStep ==
    GameFleeStep =>
        /\ app'.screen = "room"
        /\ FleeRule(StateOfGame(app.game), StateOfGame(app'.game))

\* C18 Flee placement: a flee is never terminal; it puts the cards of the table below
\* all cards of the deck, the slot-0 card at the very bottom and the slot-3 card
\* uppermost of them, then fills slots 0..3 by four successive draws from the deck
\* top; it sets fledLastRoom, resets interactionsThisRoom to 0 and potionUsedThisRoom to
\* false, and leaves hp, weaponRank and weaponKills as they were.  fleeRoom of the game
\* does the same.
C18_FleePlacement == [](C18_SolverRule) /\ [][C18_GameStep]_vars

\* A flee from a full table with a card in the deck: the deck's card comes to slot 0
\* and the old slot-0 card is what is left of the deck.
C18_Witness ==
    /\ Fled
    /\ Len(prevState.deck) > 0
    /\ \A i \in 1..4 : prevState.table[i] # NoCard
    /\ state.table[1] = prevState.deck[Len(prevState.deck)]
    /\ state.deck = <<prevState.table[1]>>

\* The cards on the table of a state.
TableCards(s) == {s.table[i] : i \in {j \in 1..4 : s.table[j] # NoCard}}

\* C19 Flee draws a new room: none of the cards on the table after a flee was on the
\* table immediately before the flee.
C19_FleeDrawsNewRoom == Fled => TableCards(state) \cap TableCards(prevState) = {}

\* The cards of a state as a bag: those of its deck, then those on its table.
CardBag(s) ==
    LET held == s.deck \o SelectSeq(s.table, IsCard)
    IN  [c \in Range(held) |-> Cardinality({i \in 1..Len(held) : held[i] = c})]

CardCount(s) == Len(s.deck) + CardsOnTable(s)

\* C20 Card conservation: the number of cards in the deck and on the table together
\* never goes up; a flee leaves the multiset of those cards as it was; every other
\* action that returns a next state takes away exactly the card of the slot acted on;
\* and no card appears that was not in the filtered deck the game started from.
C20_CardConservation ==
    /\ state # NoState =>
          /\ \A c \in DOMAIN CardBag(state) :
                /\ c \in Range(filterDeckForMode(deck, includeSpecialCards))
                /\ CardBag(state)[c] = 1
          /\ CardCount(state) <= Len(filterDeckForMode(deck, includeSpecialCards))
    /\ (state # NoState /\ prevState # NoState /\ lastAction # NoAction) =>
          /\ CardCount(state) <= CardCount(prevState)
          /\ lastAction.type = "flee" => CardBag(state) = CardBag(prevState)
          /\ lastAction.type # "flee" =>
                /\ CardCount(state) = CardCount(prevState) - 1
                /\ DOMAIN CardBag(state) = DOMAIN CardBag(prevState) \ {ActedCard}

\* A room refill after a card was used: cards moved from the deck to the table and
\* one left the game.
C20_Witness ==
    /\ ActedOnSlot
    /\ state # NoState
    /\ Len(state.deck) < Len(prevState.deck)
    /\ CardCount(state) = CardCount(prevState) - 1

(***************************************************************************)
(* Claims about direct calls of applyAction, under SpecDirect.             *)
(***************************************************************************)
Applied == call.fn = "applyAction"

C22_IllegalSentinel ==
    (Applied /\ ~Enumerated(call.s0, call.action)) => call.out = Sentinel

(***************************************************************************)
(* Claims about the pure functions, under SpecFn.                          *)
(***************************************************************************)
\* C24 Card encoding round trip: encodeCard maps "no card" to 0 and is injective and
\* non-zero on the 52 cards; decodeCard(encodeCard(c)) is c for every card c, and
\* decodeCard(0) is none.
C24_CardRoundTrip ==
    /\ call.fn = "encodeCard" =>
          IF call.card = NoCard THEN call.id = 0
          ELSE /\ call.id # 0
               /\ call.id \in CardIds
               /\ decodeCard(call.id) = call.card
               /\ \A other \in Cards52 : encodeCard(other) = call.id => other = call.card
    /\ (call.fn = "decodeCard" /\ call.id = 0) => call.card = NoCard
    /\ (call.fn = "decodeCard" /\ call.card \in Cards52) => encodeCard(call.card) = call.id

\* The ace of spades was encoded as 3 * 16 + 14.
C24_Witness ==
    /\ call.fn = "encodeCard"
    /\ call.card = Card("spades", 14)
    /\ call.id = 62

\* Two states agree on every field the claim names.
AgreeOnFields(a, b) ==
    /\ a.hp = b.hp
    /\ a.weaponRank = b.weaponRank
    /\ a.potionUsedThisRoom = b.potionUsedThisRoom
    /\ a.interactionsThisRoom = b.interactionsThisRoom
    /\ a.fledLastRoom = b.fledLastRoom
    /\ Len(a.weaponKills) = Len(b.weaponKills)
    /\ \A i \in 1..Len(a.weaponKills) : a.weaponKills[i] = b.weaponKills[i]
    /\ \A i \in 1..4 : a.table[i] = b.table[i]
    /\ Len(a.deck) = Len(b.deck)
    /\ \A i \in 1..Len(a.deck) : a.deck[i] = b.deck[i]

\* C23 Canonical key: for two states with 4-slot tables and cards of rank 2..14,
\* stateKey gives the same key if and only if the states agree on hp, weaponRank,
\* potionUsedThisRoom, interactionsThisRoom, fledLastRoom, the weaponKills sequence,
\* the table slot by slot and the deck in its order; so a key found in the visited
\* set is the key of a state equal to the one at hand.
C23_CanonicalKey ==
    call.fn = "stateKey" => (call.keyA = call.keyB <=> AgreeOnFields(call.a, call.b))

\* Two states that differ in the order of the deck only have different keys.
C23_Witness ==
    /\ call.fn = "stateKey"
    /\ call.keyA # call.keyB
    /\ [call.a EXCEPT !.deck = <<>>] = [call.b EXCEPT !.deck = <<>>]
    /\ Len(call.a.deck) = 2
    /\ Range(call.a.deck) = Range(call.b.deck)

\* The action type of a card's role, by the table of the claim.
TypeOfRole(card) ==
    IF card.suit \in {"clubs", "spades"} THEN "enemy"
    ELSE IF card.suit = "diamonds" THEN (IF card.rank <= 10 THEN "weapon" ELSE "toolkit")
    ELSE "potion"

\* The action types a list of actions has for slot i.
TypesListed(actions, i) ==
    {actions[k].type : k \in {n \in 1..Len(actions) : actions[n].slot = i}}

\* C25 Role classification: for each of the 52 cards exactly one of isEnemy, isWeapon,
\* isRepairToolkit, isHealingPotion, isPoisonPotion holds (clubs and spades enemy;
\* diamonds up to 10 weapon, from 11 toolkit; hearts up to 10 healing, from 11 poison);
\* and for every occupied slot enumerateActions lists exactly the action types of the
\* card's role, with the fist fight for every enemy, and nothing for an empty slot.
C25_RoleClassification ==
    /\ call.fn = "role" =>
          /\ Cardinality({r \in {"isEnemy", "isWeapon", "isRepairToolkit",
                                 "isHealingPotion", "isPoisonPotion"} : call[r]}) = 1
          /\ call.isEnemy <=> call.card.suit \in {"clubs", "spades"}
          /\ call.isWeapon <=> (call.card.suit = "diamonds" /\ call.card.rank <= 10)
          /\ call.isRepairToolkit <=> (call.card.suit = "diamonds" /\ call.card.rank >= 11)
          /\ call.isHealingPotion <=> (call.card.suit = "hearts" /\ call.card.rank <= 10)
          /\ call.isPoisonPotion <=> (call.card.suit = "hearts" /\ call.card.rank >= 11)
    /\ call.fn = "enumerateActions" =>
          /\ \A k \in 1..Len(call.actions) : call.actions[k].slot \in 0..3
          /\ \A i \in 0..3 :
                LET card == call.s.table[i + 1]
                IN  IF card = NoCard THEN TypesListed(call.actions, i) = {}
                    ELSE /\ TypesListed(call.actions, i) = {TypeOfRole(card)}
                         /\ TypeOfRole(card) = "enemy" =>
                               \E k \in 1..Len(call.actions) :
                                   call.actions[k] = EnemyAction(i, "fist")

\* The 10 of diamonds in slot 2 among enemies: a weapon to pick up, and fights.
C25_Witness ==
    /\ call.fn = "enumerateActions"
    /\ call.s.table[3] = Card("diamonds", 10)
    /\ TypesListed(call.actions, 2) = {"weapon"}
    /\ TypesListed(call.actions, 0) = {"enemy"}

\* Base mode keeps a card unless it is a heart or a diamond of rank 11 or more.
KeptInBase(c) == ~(c.suit \in {"hearts", "diamonds"} /\ c.rank >= 11)

\* The deck the claim lets makeInitialState draw from.
ExpectedFiltered ==
    IF call.includeSpecialCards THEN call.deck ELSE SelectSeq(call.deck, KeptInBase)

\* C26 Initial state: with includeSpecialCards false makeInitialState drops exactly the
\* hearts and diamonds of rank 11 or more and keeps the other cards in their order
\* (with true it keeps every card); it fills slots 0..3 with the top four cards in draw
\* order, the top card in slot 0, a missing card leaving its slot empty; it sets hp to
\* startingHp, weaponRank to 0, weaponKills empty, interactionsThisRoom to 0 and both
\* flags false; and the caller's deck array is as it was.
C26_InitialState ==
    call.fn = "makeInitialState" =>
        LET f == ExpectedFiltered
            s == call.state
        IN  /\ s.table = [i \in 1..4 |-> IF i <= Len(f) THEN f[Len(f) - i + 1] ELSE NoCard]
            /\ s.deck = SubSeq(f, 1, Len(f) - Min(4, Len(f)))
            /\ s.hp = call.startingHp
            /\ s.weaponRank = 0
            /\ s.weaponKills = <<>>
            /\ s.interactionsThisRoom = 0
            /\ ~s.potionUsedThisRoom
            /\ ~s.fledLastRoom
            /\ call.deckAfter = call.deck

\* Base mode on a deck of five with a toolkit and a poison potion in it: three cards
\* are dealt and a slot stays empty.
C26_Witness ==
    /\ call.fn = "makeInitialState"
    /\ ~call.includeSpecialCards
    /\ Len(call.deck) = 5
    /\ Card("diamonds", 11) \in Range(call.deck)
    /\ Card("hearts", 11) \in Range(call.deck)
    /\ call.state.table[3] # NoCard
    /\ call.state.table[4] = NoCard
    /\ call.state.deck = <<>>

\* solve was called on four aces with 20 hp.
FourAcesCall == pc # "idle" /\ deck \in FourAcesDecks /\ startingHp = 20

\* C27 Four-aces example: for a deck of exactly four rank-14 enemies, in any mix of
\* clubs and spades, and startingHp 20, solve returns clearable false (when no budget
\* cuts the search short, and never true): every action on the first room but the flee
\* is a fist fight that costs 14 hp, a second fist fight is lethal, and the flee deals
\* the same four cards again.
C27_FourAces ==
    FourAcesCall =>
        /\ pc = "done" =>
              /\ result.clearable # "true"
              /\ (maxNodes = DefaultMaxNodes /\ timeLimitMs = NoLimit)
                    => result.clearable = "false"
        /\ \A k \in 1..Len(enumerateActions(initial)) :
              LET action == enumerateActions(initial)[k]
                  out == applyAction(initial, action)
              IN  IF action.type = "flee"
                  THEN /\ k = 1
                       /\ Range(out.state.table) = Range(initial.table)
                       /\ out.state.deck = <<>>
                       /\ out.state.hp = 20
                  ELSE /\ action.type = "enemy" /\ action.method = "fist"
                       /\ out.state # NoState
                       /\ out.state.hp = 6
                       /\ \A j \in 1..Len(enumerateActions(out.state)) :
                             Outcome(out.state, j) = Dead
        /\ Len(enumerateActions(initial)) = 5

\* solve ran the search on a mixed deck of aces to its end and returned false.
C27_Witness ==
    /\ FourAcesCall
    /\ pc = "done"
    /\ Range(deck) = {Card("clubs", 14), Card("spades", 14)}
    /\ maxNodes = DefaultMaxNodes
    /\ result.clearable = "false"
    /\ result.nodes > 4

\* C28 Clear score bound: in the game, the score shown on clearing the dungeon is the
\* remaining hp plus the rank of the last card used if that card was a healing potion,
\* and plus 0 otherwise; it is always between 1 and 30.
C28_ClearScore ==
    OnScreen("clear") =>
        /\ app.score = app.game.hp +
              (IF app.game.lastUsedCard # NoCard /\ isPotion(app.game.lastUsedCard)
               THEN app.game.lastUsedCard.rank ELSE 0)
        /\ app.score >= 1
        /\ app.score <= 30

\* The dungeon was cleared at full hp with the 10 of hearts as the last card.
C28_Witness ==
    /\ OnScreen("clear")
    /\ app.game.lastUsedCard = Card("hearts", 10)
    /\ app.score = 30

\* The enemy in every occupied enemy slot of s may be fought with the weapon.
EveryEnemyWeaponFightable(s) ==
    \A i \in 0..3 :
        (s.table[i + 1] # NoCard /\ isEnemy(s.table[i + 1]))
            => Enumerated(s, EnemyAction(i, "weapon"))

Equipped == prevState # NoState /\ lastAction.type = "weapon" /\ state # NoState

\* C29 Weapon stack ownership: in every reachable state weaponKills is non-empty only
\* if weaponRank > 0; equipping a weapon sets weaponRank to the rank of the card and
\* empties weaponKills, so right after an equip every enemy on the table can be fought
\* with the weapon, whatever the previous weapon killed.
C29_WeaponStackOwnership ==
    /\ state # NoState => (Len(state.weaponKills) > 0 => state.weaponRank > 0)
    /\ Equipped =>
          /\ state.weaponRank = ActedCard.rank
          /\ state.weaponKills = <<>>
          /\ EveryEnemyWeaponFightable(state)

\* A weapon replaced one that had made kills, and an enemy on the table that the old
\* weapon could no longer fight can be fought with the new one.
C29_Witness ==
    /\ Equipped
    /\ Len(prevState.weaponKills) > 0
    /\ \E i \in 1..4 :
          /\ state.table[i] # NoCard
          /\ isEnemy(state.table[i])
          /\ ~weaponAllowed(prevState, state.table[i].rank)

\* The outcome is a next state or a terminal win or dead.
StateOrTerminal(out) ==
    \/ out.state # NoState /\ out.terminal = NoTerminal
    \/ out.state = NoState /\ out.terminal \in {"win", "dead"}

\* C30 Enumerator/engine consistency: for every state reachable from an initial state
\* and every action enumerateActions returns on it, applyAction returns a next state or
\* a terminal win or dead, never the no-result sentinel.
C30_EnumeratorEngineConsistent ==
    state # NoState =>
        \A k \in 1..Len(enumerateActions(state)) :
            /\ Outcome(state, k) # Sentinel
            /\ StateOrTerminal(Outcome(state, k))

\* A state reached by play where a weapon fight is enumerated although the weapon has
\* made a kill, next to another kind of action.
C30_Witness ==
    /\ state # NoState
    /\ lastAction # NoAction
    /\ Len(state.weaponKills) > 0
    /\ \E i \in 0..3 : Enumerated(state, EnemyAction(i, "weapon"))
    /\ \E k \in 1..Len(enumerateActions(state)) :
          enumerateActions(state)[k].type # "enemy"

\* A Play step fought the enemy of a slot.
Fought == ActedOnSlot /\ lastAction.type = "enemy"

\* The damage of the fight, by the rules of the claim.
FightDamage ==
    IF lastAction.method = "weapon" THEN Max(0, ActedCard.rank - prevState.weaponRank)
    ELSE ActedCard.rank

\* C31 Fight damage: a fist fight lowers hp by the enemy's rank and leaves weaponKills
\* as it was; a legal weapon fight lowers hp by max(0, rank - weaponRank), never raising
\* it, and on survival pushes the enemy's rank on top of weaponKills; either way the
\* outcome is "dead" exactly when the resulting hp is 0 or below, and otherwise the slot
\* is cleared and the room-advance step runs.
C31_FightDamage ==
    Fought =>
        /\ FightDamage >= 0
        /\ terminal = "dead" <=> prevState.hp - FightDamage <= 0
        /\ terminal = "win" =>
              prevState.hp - FightDamage > 0 /\ WasLastCard
        /\ state = NoState <=> terminal \in {"win", "dead"}
        /\ state # NoState =>
              /\ state.hp = prevState.hp - FightDamage
              /\ state.hp <= prevState.hp
              /\ state.weaponRank = prevState.weaponRank
              /\ state.weaponKills =
                    IF lastAction.method = "weapon"
                    THEN Append(prevState.weaponKills, ActedCard.rank)
                    ELSE prevState.weaponKills
              /\ RoomAdvanceRule(prevState, TableAfterUse, FALSE, state)

\* A weapon fight against an enemy above the weapon's rank was survived with a loss of
\* hp.
C31_Witness ==
    /\ Fought
    /\ lastAction.method = "weapon"
    /\ ActedCard.rank > prevState.weaponRank
    /\ state # NoState
    /\ state.hp < prevState.hp

(***************************************************************************)
(* SpecGame: the rules played both ways.  Either a caller plays a dungeon   *)
(* through the solver's engine as in Spec, or one game of the app is       *)
(* played through: the page was loaded, a mode was chosen on the menu and  *)
(* the calculation was skipped, so that the game starts from a deck of     *)
(* createDeck; from there the player takes the options of the room screen  *)
(* and of the enemy choice screen.                                         *)
(***************************************************************************)
\* The packs the games are dealt from: those of Spec, and the card families of the
\* solver's decks.
RulePacks == GamePacks \cup {KillOrderCards, WeaponSwapCards}

\* The app once start() has shown the menu and beginDungeonCreation the creating
\* screen.
CreatingApp(special) ==
    beginDungeonCreation(showMenu(startSilentSolver(ConstructedApp)), special).app

InitGame ==
    /\ deck = <<>>
    /\ includeSpecialCards = TRUE
    /\ startingHp = 20
    /\ PlayIdle
    /\ SolveIdle
    /\ \E special \in BOOLEAN : \E pack \in RulePacks :
          \E d \in createDeck(pack, special) :
             /\ app = skipCalculation(CreatingApp(special), d)
             /\ creationRuns = {[token |-> CreatingApp(special).createDungeonToken,
                                 includeSpecialCards |-> special,
                                 pc |-> "scheduled"]}
             /\ lastCall = [handler |-> "skipCalculation",
                            before |-> NoGameSeen,
                            changed |-> TRUE]
    /\ silentRun = [pc |-> "scheduled", token |-> 1]

NextGame == Play \/ FleeRoom \/ SelectSlot \/ SelectFight \/ SelectBack

SpecGame == (InitPlay \/ InitGame) /\ [][NextGame]_vars

\* A Play step used the repair toolkit of a slot.
UsedToolkit == ActedOnSlot /\ lastAction.type = "toolkit"

\* The kill stack after a toolkit, by the rule of the claim: less its most recent entry
\* when a weapon is equipped and the stack holds one, and as it was otherwise.
KillsAfterToolkit(weaponEquipped, kills) ==
    IF weaponEquipped /\ Len(kills) > 0 THEN SubSeq(kills, 1, Len(kills) - 1) ELSE kills

C32_SolverRule ==
    UsedToolkit =>
        /\ terminal # "dead"
        /\ terminal = "win" <=> WasLastCard
        /\ state = NoState <=> terminal = "win"
        /\ state # NoState =>
              /\ state.weaponKills =
                    KillsAfterToolkit(prevState.weaponRank > 0, prevState.weaponKills)
              /\ state.weaponRank = prevState.weaponRank
              /\ state.hp = prevState.hp
              /\ ActedCard \notin CardsOf(state)
              /\ RoomAdvanceRule(prevState, TableAfterUse, FALSE, state)

\* The step is the game's use of the repair toolkit in slot i of its room.
GameToolkitStep(i) ==
    /\ GameSlotStep
    /\ app.game.table[i + 1] # NoCard
    /\ app_isRepairToolkit(app.game.table[i + 1])
    /\ app'.game.lastUsedCard = app.game.table[i + 1]

C32_GameStep ==
    \A i \in 0..3 :
        GameToolkitStep(i) =>
            /\ app'.game.weaponKills =
                  KillsAfterToolkit(app.game.weapon # NoCard, app.game.weaponKills)
            /\ app'.game.weapon = app.game.weapon
            /\ app'.game.hp = app.game.hp
            /\ \A j \in 1..4 : app'.game.table[j] # app.game.table[i + 1]
            /\ app'.screen \in {"room", "clear"}
            /\ app'.screen = "room" =>
                  RoomAdvanceRule(StateOfGame(app.game),
                                  [app.game.table EXCEPT ![i + 1] = NoCard],
                                  FALSE, StateOfGame(app'.game))

\* C32 Repair toolkit: using a toolkit removes the most recent entry of weaponKills when
\* a weapon is equipped and weaponKills is non-empty, and otherwise changes neither
\* weaponKills nor weaponRank; either way hp stays, the toolkit leaves its slot and the
\* use counts as an interaction for the room-advance step.  The game's useRepairToolkit
\* does the same.
C32_RepairToolkit == [](C32_SolverRule) /\ [][C32_GameStep]_vars

\* The game used a toolkit on a weapon with two kills and the room goes on with one.
C32_Witness ==
    /\ OnScreen("room")
    /\ lastCall.handler = "interactWithSlot"
    /\ app.game.lastUsedCard # NoCard
    /\ app_isRepairToolkit(app.game.lastUsedCard)
    /\ app.game.weapon # NoCard
    /\ Len(app.game.weaponKills) = 1

\* A Play step drank a potion that did not fizzle and was not the winning last card.
DrankInEffect ==
    /\ ActedOnSlot
    /\ lastAction.type = "potion"
    /\ ~prevState.potionUsedThisRoom
    /\ ~(WasLastCard /\ isHealingPotion(ActedCard))

\* C33 Healing and poison: a healing potion that does not fizzle sets hp to
\* min(20, hp + rank) and so never lowers hp; a poison potion that does not fizzle
\* lowers hp by 10 and the outcome is "dead" if that leaves 0 or less; both set
\* potionUsedThisRoom before the room-advance step; hp never goes up through any action
\* other than a healing potion that does not fizzle.
C33_HealingAndPoison ==
    /\ (DrankInEffect /\ isHealingPotion(ActedCard)) =>
          /\ terminal # "dead"
          /\ state # NoState =>
                /\ state.hp = Min(20, prevState.hp + ActedCard.rank)
                /\ state.hp >= prevState.hp
                /\ RoomAdvanceRule(prevState, TableAfterUse, TRUE, state)
    /\ (DrankInEffect /\ isPoisonPotion(ActedCard)) =>
          /\ terminal = "dead" <=> prevState.hp - 10 <= 0
          /\ state # NoState =>
                /\ state.hp = prevState.hp - 10
                /\ RoomAdvanceRule(prevState, TableAfterUse, TRUE, state)
    /\ (prevState # NoState /\ lastAction # NoAction /\ state # NoState
          /\ state.hp > prevState.hp)
          => DrankInEffect /\ isHealingPotion(ActedCard)

\* The state is one play goes on from: a next state applyAction returned, or an initial
\* state that is neither won nor dead.
PlayGoesOn ==
    /\ state # NoState
    /\ lastAction # NoAction \/ (~isWinState(state) /\ ~isDeadState(state))

\* C34 No stuck state: every state applyAction returns as a next state, and every
\* initial state that is neither won nor dead, has an occupied table slot and a
\* non-empty enumerateActions result, so play stops only in "win" or "dead".
C34_NoStuckState ==
    PlayGoesOn =>
        /\ TableSome(state.table)
        /\ Len(enumerateActions(state)) > 0

\* A next state with nothing but one card left and no way to flee.
C34_Witness ==
    /\ state # NoState
    /\ lastAction # NoAction
    /\ Len(state.deck) = 0
    /\ Cardinality({i \in 1..4 : state.table[i] # NoCard}) = 1
    /\ ~FleeAllowed(state)
    /\ Len(enumerateActions(state)) = 1

(***************************************************************************)
(* SpecTerm: play and search to their end.  Either a caller plays a        *)
(* dungeon through as in Spec and goes on while an action is enumerated,   *)
(* or solve is called once with the default node budget, which no deck     *)
(* here comes near, and no time limit, and its loop runs on while the      *)
(* call has not returned.                                                  *)
(***************************************************************************)
MaxTermDeckLen == 3

\* The short decks, and two that leave a card under the first room.
TermDecks == DistinctSeqs(DeckCards, MaxTermDeckLen) \cup LongDecks

UnboundedProfiles ==
    {o \in OptionProfiles : o.maxNodes = DefaultMaxNodes /\ o.timeLimitMs = NoLimit}

InitTermPlay ==
    /\ \E d \in TermDecks, hp \in SolveStartingHps :
          /\ deck = d
          /\ includeSpecialCards = TRUE
          /\ startingHp = hp
    /\ state = makeInitialState(deck, includeSpecialCards, startingHp)
    /\ prevState = NoState
    /\ lastAction = NoAction
    /\ terminal = NoTerminal
    /\ played = NonePlayed
    /\ call = NoDirectCall
    /\ SolveIdle
    /\ AppIdle

SolveUnbounded ==
    /\ pc = "idle"
    /\ PlayIdle
    /\ SolveCall(TermDecks, SolveStartingHps, UnboundedProfiles)
    /\ UNCHANGED callerVars

InitTerm == InitTermPlay \/ InitSolve

\* An iteration of the while loop as the node counter shows it: the loop is at its
\* head with a frame on the stack, and nodes++ counts the iteration.  Without a time
\* limit every iteration is such a step.
IterationCounted == pc = "loop" /\ stack # <<>> /\ nodes' = nodes + 1

\* A step of the play-through as the action counts show it: the state is live, an
\* action is enumerated for it, and applying it is counted.
ActionCounted ==
    /\ state # NoState
    /\ ~isDeadState(state)
    /\ ~isWinState(state)
    /\ \E k \in 1..Len(enumerateActions(state)) :
          played' = IF enumerateActions(state)[k].type = "flee"
                    THEN [played EXCEPT !.flee = @ + 1]
                    ELSE [played EXCEPT !.other = @ + 1]

NextTerm == Play \/ SolveUnbounded \/ Iterate \/ ReturnFalse

\* The caller goes on while an action is enumerated; a call of solve is made, its
\* loop goes on iterating while the stack holds a frame, and it returns when the
\* loop condition fails.
SpecTerm ==
    /\ InitTerm
    /\ [][NextTerm]_vars
    /\ WF_played(ActionCounted)
    /\ WF_vars(SolveUnbounded)
    /\ WF_nodes(IterationCounted)
    /\ WF_vars(ReturnFalse)

\* The number of cards of the initial state of the play-through: those of the caller's
\* deck that the mode keeps.
InitialCards == Len(filterDeckForMode(deck, includeSpecialCards))

\* The play-through has come to its end: a terminal outcome, or an initial state that
\* is dead or won as it stands.
PlayOver ==
    \/ state = NoState /\ terminal \in {"win", "dead"}
    \/ state # NoState /\ lastAction = NoAction
          /\ (isDeadState(state) \/ isWinState(state))

C35_ActionBound ==
    /\ played.other <= InitialCards
    /\ played.flee <= InitialCards
    /\ Fled => ~Enumerated(state, FleeAction)
    /\ (ActedOnSlot /\ state # NoState) => CardCount(state) = CardCount(prevState) - 1
    /\ (Returned /\ maxNodes = DefaultMaxNodes /\ timeLimitMs = NoLimit)
          => result.clearable \in {"true", "false"}

\* C35 Termination: every sequence of legal actions from an initial state with N cards
\* reaches "win" or "dead" after at most N actions other than flee and at most N flees,
\* each flee being followed by an action that uses up a card before the next flee; and
\* solve on a finite deck returns, with a verdict, when neither the node budget nor a
\* time limit stops it.
C35_Termination == [](C35_ActionBound) /\ <>(PlayOver \/ Returned)

\* A dungeon of five cards was cleared with two flees on the way.
C35_Witness ==
    /\ terminal = "win"
    /\ InitialCards = 5
    /\ played.other = 5
    /\ played.flee = 2

\* The number of enemy cards in a sequence of cards and of empty slots.
EnemiesIn(cards) == Cardinality({i \in 1..Len(cards) : cards[i] # NoCard /\ isEnemy(cards[i])})

\* The enemy cards used up since the initial state of the play-through.
EnemiesConsumed ==
    EnemiesIn(filterDeckForMode(deck, includeSpecialCards))
        - (EnemiesIn(state.deck) + EnemiesIn(state.table))

\* C36 Kill stack ordering: in every reachable state weaponKills is strictly decreasing
\* from its first (oldest) to its last (most recent) element, each element is the rank
\* of an enemy card (2..14), and its length is at most the number of enemy cards used
\* up so far.
C36_KillStackOrdering ==
    state # NoState =>
        /\ \A i \in 1..(Len(state.weaponKills) - 1) :
              state.weaponKills[i] > state.weaponKills[i + 1]
        /\ \A i \in 1..Len(state.weaponKills) : state.weaponKills[i] \in 2..14
        /\ Len(state.weaponKills) <= EnemiesConsumed

\* Two kills on the weapon, with an enemy used up that is not among them.
C36_Witness ==
    /\ state # NoState
    /\ Len(state.weaponKills) = 2
    /\ EnemiesConsumed = 3

\* The solver's action for the use of the card in slot i of the game's room.
UseActionOf(g, i) ==
    LET card == g.table[i + 1]
    IN  IF app_isRepairToolkit(card) THEN SlotAction("toolkit", i)
        ELSE IF app_isWeapon(card) THEN SlotAction("weapon", i)
        ELSE SlotAction("potion", i)

\* The game after a step agrees with the solver's outcome of the action on the game
\* before it: the same next state, or clear for "win" and death for "dead".
AgreesWithSolver(action) ==
    LET out == applyAction(StateOfGame(app.game), action)
    IN  /\ Enumerated(StateOfGame(app.game), action)
        /\ out # Sentinel
        /\ out.terminal = "win" <=> app'.screen = "clear"
        /\ out.terminal = "dead" <=> app'.screen = "death"
        /\ out.state # NoState <=> app'.screen = "room"
        /\ out.state # NoState => StateOfGame(app'.game) = out.state

\* The options the game offers are the actions the solver enumerates.
C37_SameChoices ==
    /\ OnScreen("room") =>
          /\ canFlee(app.game) <=> Enumerated(StateOfGame(app.game), FleeAction)
          /\ \A i \in 0..3 :
                LET card == app.game.table[i + 1]
                IN  IF card = NoCard
                    THEN \A k \in 1..Len(enumerateActions(StateOfGame(app.game))) :
                            enumerateActions(StateOfGame(app.game))[k].type # "flee"
                                => enumerateActions(StateOfGame(app.game))[k].slot # i
                    ELSE IF app_isEnemy(card)
                    THEN Enumerated(StateOfGame(app.game), EnemyAction(i, "fist"))
                    ELSE Enumerated(StateOfGame(app.game), UseActionOf(app.game, i))
    /\ OnScreen("enemyChoice") =>
          /\ app_weaponAllowed(app.game, app.pending.enemyCard)
                <=> Enumerated(StateOfGame(app.game),
                               EnemyAction(app.pending.slotIndex, "weapon"))
          /\ app.game.table[app.pending.slotIndex + 1] = app.pending.enemyCard

C37_GameStep ==
    /\ (OnScreen("room") /\ lastCall'.handler = "fleeRoom" /\ canFlee(app.game))
          => AgreesWithSolver(FleeAction)
    /\ \A i \in 0..3 :
          (/\ OnScreen("room")
           /\ lastCall'.handler = "interactWithSlot"
           /\ app.game.table[i + 1] # NoCard
           /\ app' = interactWithSlot(app, i))
          => IF app_isEnemy(app.game.table[i + 1])
             THEN /\ app'.screen = "enemyChoice"
                  /\ app'.pending.slotIndex = i
                  /\ app'.game = app.game
             ELSE AgreesWithSolver(UseActionOf(app.game, i))
    /\ \A method \in {"weapon", "fist"} :
          (/\ OnScreen("enemyChoice")
           /\ lastCall'.handler = "fightEnemy"
           /\ method = "weapon" => app_weaponAllowed(app.game, app.pending.enemyCard)
           /\ app' = fightEnemy(app, app.pending.slotIndex, app.pending.enemyCard, method))
          => AgreesWithSolver(EnemyAction(app.pending.slotIndex, method))
    /\ (OnScreen("enemyChoice") /\ lastCall'.handler = "showRoom")
          => app'.screen = "room" /\ app'.game = app.game

\* The game starts where the solver starts: full hp, no weapon, and the first room
\* dealt from the top of the deck.
C37_SameStart ==
    (OnScreen("room") /\ lastCall.handler = "skipCalculation") =>
        LET s == StateOfGame(app.game)
        IN  s = makeInitialState(
                    s.deck \o <<s.table[4], s.table[3], s.table[2], s.table[1]>>,
                    app.game.includeSpecialCards, 20)

\* C37 Game/solver agreement: the game's rules and the solver's applyAction are the same
\* transition relation.  Started from the same deck and table, the game offers the
\* choices the solver enumerates, and for every choice the game's hp, deck, table,
\* weapon rank, kill ranks and room flags after it equal the solver's next state, and
\* the game ends in clear or death exactly when the solver reports "win" or "dead".
C37_GameSolverAgreement ==
    [](C37_SameChoices /\ C37_SameStart) /\ [][C37_GameStep]_vars

\* A game cleared by a weapon kill on top of an earlier kill, after a flee.
C37_Witness ==
    /\ OnScreen("clear")
    /\ lastCall.handler = "fightEnemy"
    /\ Len(app.game.weaponKills) >= 2
    /\ app.game.fledLastRoom


(***************************************************************************)
(* SpecCoop: the app beside a solver that has solveCooperative.  The       *)
(* object createSolver returns has no such member, so the function is      *)
(* taken from the specification: the verdict of solve for the deck when    *)
(* the search ends, and an indeterminate one when it is aborted or out of  *)
(* budget.  The runs that await it are the code of beginDungeonCreation    *)
(* and of fillSilentPool past their typeof check and await.                *)
(***************************************************************************)
\* The verdict of solve for the state a deck is dealt to: some sequence of
\* enumerated actions clears it.
CanClear(s) ==
    IF isDeadState(s) THEN FALSE
    ELSE IF isWinState(s) THEN TRUE
    ELSE CanWin(s)

\* result.clearable of an awaited solver.solveCooperative(fullDeck, {includeSpecialCards,
\* timeLimitMs, maxNodes, shouldAbort}): "true", "false" or "null".
solveCooperative(fullDeck, special) ==
    {IF CanClear(makeInitialState(fullDeck, special, 20)) THEN "true" ELSE "false", "null"}

\* The packs the creation and silent runs shuffle: a dungeon of one weapon, which
\* is clearable, and one of two aces, which is not.
CoopPacks == {{Card("diamonds", 4)}, {Card("clubs", 14), Card("spades", 14)}}

\* buildCandidateDungeon: the first shuffle with a weapon in the first room, or the
\* last of 201 shuffles whatever its first room, so any order createDeck returns.
buildCandidateDungeon(pack, special) ==
    {[fullDeck |-> d, deckForGame |-> app_DrawFour(d).deck, table |-> app_DrawFour(d).table] :
        d \in createDeck(pack, special)}

\* The candidates a run can build in each mode.
Candidates ==
    [special \in BOOLEAN |-> UNION {buildCandidateDungeon(pack, special) : pack \in CoopPacks}]

\* { deck: deckForGame, table, includeSpecialCards }
Prepared(candidate, special) ==
    [deck |-> candidate.deckForGame, table |-> candidate.table, includeSpecialCards |-> special]

showDeckQueue(a) == setScreen([a EXCEPT !.mode = "deckQueue", !.pending = NoPending], "deckQueue")

enterDungeon(a) ==
    IF a.pendingDungeon = NoDungeon THEN a
    ELSE startGameFromPreparedDungeon([a EXCEPT !.pendingDungeon = NoDungeon], a.pendingDungeon)

\* The app after enqueuePreparedDungeon(prepared).
enqueuePreparedDungeon(a, prepared) ==
    LET key == PoolKey(prepared.includeSpecialCards)
        pushed == [a EXCEPT !.silentPools[key] = Append(@, prepared)]
    IN  IF Len(a.silentPools[key]) >= SILENT_POOL_LIMIT THEN a
        ELSE IF a.mode = "deckQueue" THEN showDeckQueue(pushed)
        ELSE pushed

\* What the resumed part of a run leaves on record: the run's token and the verdict
\* it was given.
RunCall(handler, token, clearable) ==
    [handler |-> handler, token |-> token, clearable |-> clearable]

\* The run of beginDungeonCreation from its loop test to its await of the solver:
\* it renders the creating screen and builds a candidate.
creationRunRenders(a, r) ==
    IF a.createDungeonToken # r.token THEN a
    ELSE setScreen([a EXCEPT !.creating = r.includeSpecialCards], "creating")

\* The run of beginDungeonCreation going on without its token check after the await.
creationRunResumesStale(a, r, clearable) ==
    IF clearable = "true"
    THEN setScreen([a EXCEPT !.pendingDungeon = Prepared(r.candidate, r.includeSpecialCards),
                             !.mode = "dungeonReady"],
                   "dungeonReady")
    ELSE a

\* The run of beginDungeonCreation after its await of the solver.
creationRunResumes(a, r, clearable) ==
    IF a.createDungeonToken # r.token THEN a
    ELSE IF clearable = "true"
    THEN setScreen([a EXCEPT !.pendingDungeon = Prepared(r.candidate, r.includeSpecialCards),
                             !.mode = "dungeonReady"],
                   "dungeonReady")
    ELSE a

\* fillSilentPool comes to its await of the solver.
fillSilentPoolAwaits(a, special, token) ==
    /\ a.silentSolverToken = token
    /\ shouldRunSilentSolver(a)
    /\ Len(a.silentPools[PoolKey(special)]) < SILENT_POOL_LIMIT

\* fillSilentPool enqueueing whatever verdict it was given.
fillSilentPoolAnyVerdict(a, run, clearable) ==
    IF a.silentSolverToken # run.token THEN a
    ELSE IF ~shouldRunSilentSolver(a) THEN a
    ELSE enqueuePreparedDungeon(a, Prepared(run.candidate, run.includeSpecialCards))

\* fillSilentPool after its await of the solver.
fillSilentPoolResumes(a, run, clearable) ==
    IF a.silentSolverToken # run.token THEN a
    ELSE IF ~shouldRunSilentSolver(a) THEN a
    ELSE IF clearable # "true" THEN a
    ELSE enqueuePreparedDungeon(a, Prepared(run.candidate, run.includeSpecialCards))

\* A scheduled run of beginDungeonCreation resumes after its timer.
CreationRunCall ==
    /\ \E r \in creationRuns :
          /\ r.pc = "scheduled"
          /\ app' = creationRunRenders(app, r)
          /\ lastCall' = RunCall("creationRun", r.token, "none")
          /\ IF app.createDungeonToken # r.token
             THEN creationRuns' = creationRuns \ {r}
             ELSE \E c \in Candidates[r.includeSpecialCards] :
                        creationRuns' = (creationRuns \ {r}) \cup
                            {[token |-> r.token,
                              includeSpecialCards |-> r.includeSpecialCards,
                              pc |-> "awaitingSolver",
                              candidate |-> c]}
    /\ UNCHANGED <<silentRun, argVars, playVars, solveVars>>

\* The solver call of a run of beginDungeonCreation resolves.
CreationRunResolve ==
    /\ \E r \in creationRuns :
          /\ r.pc = "awaitingSolver"
          /\ \E clearable \in solveCooperative(r.candidate.fullDeck, r.includeSpecialCards) :
                /\ app' = creationRunResumes(app, r, clearable)
                /\ lastCall' = RunCall("creationRun", r.token, clearable)
                /\ creationRuns' =
                       IF app.createDungeonToken # r.token \/ clearable = "true"
                       THEN creationRuns \ {r}
                       ELSE (creationRuns \ {r}) \cup
                                {[token |-> r.token,
                                  includeSpecialCards |-> r.includeSpecialCards,
                                  pc |-> "scheduled"]}
    /\ UNCHANGED <<silentRun, argVars, playVars, solveVars>>

\* The run of startSilentSolver calls fillSilentPool(true): the fill returns early
\* and the run waits for its timer, or the fill awaits the solver.
SilentPlusCall(a, token) ==
    IF fillSilentPoolAwaits(a, TRUE, token)
    THEN {[pc |-> "awaitingSolver", token |-> token, includeSpecialCards |-> TRUE,
           candidate |-> c] :
             c \in Candidates[TRUE]}
    ELSE {[pc |-> "scheduled", token |-> token]}

\* The run of startSilentSolver calls fillSilentPool(false), and fillSilentPool(true)
\* when that returns early.
SilentBaseCall(a, token) ==
    IF fillSilentPoolAwaits(a, FALSE, token)
    THEN {[pc |-> "awaitingSolver", token |-> token, includeSpecialCards |-> FALSE,
           candidate |-> c] :
             c \in Candidates[FALSE]}
    ELSE SilentPlusCall(a, token)

\* The run of startSilentSolver resumes after its timer, at its loop test: it ends,
\* waits, or calls fillSilentPool.
SilentRunCall ==
    /\ silentRun.pc = "scheduled"
    /\ app # NoApp
    /\ IF app.silentSolverToken # silentRun.token
       THEN silentRun' = [pc |-> "done", token |-> silentRun.token]
       ELSE IF ~shouldRunSilentSolver(app)
       THEN silentRun' = silentRun
       ELSE silentRun' \in SilentBaseCall(app, silentRun.token)
    /\ lastCall' = RunCall("silentRun", silentRun.token, "none")
    /\ UNCHANGED <<app, creationRuns, argVars, playVars, solveVars>>

\* The solver call of fillSilentPool resolves, and the run of startSilentSolver goes
\* on: to fillSilentPool(true) after fillSilentPool(false), and to its timer.
SilentRunResolve ==
    /\ silentRun.pc = "awaitingSolver"
    /\ \E clearable \in solveCooperative(silentRun.candidate.fullDeck,
                                         silentRun.includeSpecialCards) :
          LET after == fillSilentPoolResumes(app, silentRun, clearable)
          IN  /\ app' = after
              /\ lastCall' = RunCall("fillSilentPool", silentRun.token, clearable)
              /\ silentRun' \in IF silentRun.includeSpecialCards
                                THEN {[pc |-> "scheduled", token |-> silentRun.token]}
                                ELSE SilentPlusCall(after, silentRun.token)
    /\ UNCHANGED <<creationRuns, argVars, playVars, solveVars>>

\* app.start() called again on the started app.
StartAgain ==
    /\ app # NoApp
    /\ app.screen # "blank"
    /\ Call("start", showMenu(startSilentSolver(app)))
    /\ silentRun' = IF app.silentSolverRunning THEN silentRun
                    ELSE [pc |-> "scheduled", token |-> app.silentSolverToken + 1]
    /\ UNCHANGED <<creationRuns, argVars, playVars, solveVars>>

\* The Deck Queue button, shown on the menu.
ShowDeckQueue ==
    /\ OnScreen("menu")
    /\ Call("showDeckQueue", showDeckQueue(app))
    /\ UNCHANGED <<creationRuns, silentRun, argVars, playVars, solveVars>>

\* Enter the dungeon, on the screen of a ready dungeon.
EnterDungeon ==
    /\ OnScreen("dungeonReady")
    /\ Call("enterDungeon", enterDungeon(app))
    /\ UNCHANGED <<creationRuns, silentRun, argVars, playVars, solveVars>>

\* resetBtnEl.hidden, as setScreen leaves it.
resetHidden(a) ==
    a.mode \in {"menu", "resetConfirm", "creatingDungeon", "dungeonReady", "deckQueue"}

\* requestReset: the confirm screen, with the way back the mode gives.
requestReset(a) ==
    IF a.mode = "menu" \/ a.mode = "resetConfirm" THEN a
    ELSE setScreen([a EXCEPT !.resetReturn =
                                 IF a.mode = "room" THEN "showRoom"
                                 ELSE IF a.mode = "enemyChoice" /\ a.pending.kind = "enemyChoice"
                                 THEN "showEnemyChoice"
                                 ELSE "showMenu",
                             !.mode = "resetConfirm",
                             !.pending = NoPending],
                   "resetConfirm")

\* The No option of the confirm screen: goBack(), which for an enemy choice reads
\* the pending choice requestReset has cleared, and throws.
resetNo(a) ==
    LET cleared == [a EXCEPT !.resetReturn = "null"]
    IN  IF a.resetReturn = "showRoom" THEN showRoom(cleared)
        ELSE IF a.resetReturn = "showEnemyChoice" THEN cleared
        ELSE showMenu(cleared)

\* The Reset button, while it is shown.
RequestReset ==
    /\ app # NoApp
    /\ app.screen # "blank"
    /\ ~resetHidden(app)
    /\ Call("requestReset", requestReset(app))
    /\ UNCHANGED <<creationRuns, silentRun, argVars, playVars, solveVars>>

\* The options of the confirm screen: Yes, showMenu, and No.
SelectReset ==
    /\ OnScreen("resetConfirm")
    /\ \E yes \in BOOLEAN :
          Call("resetConfirm", IF yes THEN showMenu(app) ELSE resetNo(app))
    /\ UNCHANGED <<creationRuns, silentRun, argVars, playVars, solveVars>>

\* Skip calculation, with a deck of the packs the runs shuffle.
SkipCalculation ==
    /\ OnScreen("creating")
    /\ \E pack \in CoopPacks : \E d \in createDeck(pack, app.creating) :
          Call("skipCalculation", skipCalculation(app, d))
    /\ UNCHANGED <<creationRuns, silentRun, argVars, playVars, solveVars>>

NextCoop ==
    \/ Start
    \/ StartAgain
    \/ SelectStartGame
    \/ SelectMenu
    \/ SkipCalculation
    \/ RequestReset
    \/ SelectReset
    \/ ShowDeckQueue
    \/ EnterDungeon
    \/ CreationRunCall
    \/ CreationRunResolve
    \/ SilentRunCall
    \/ SilentRunResolve

SpecCoop == InitApp /\ [][NextCoop]_vars

\* The deck a prepared dungeon was dealt from: its first room back on top of its deck.
FullDeckOf(prepared) ==
    prepared.deck \o
        SelectSeq(<<prepared.table[4], prepared.table[3], prepared.table[2], prepared.table[1]>>,
                  LAMBDA c : c # NoCard)

\* The solver's verdict for a prepared dungeon under its own flag is true.
Proven(prepared) ==
    CanClear(makeInitialState(FullDeckOf(prepared), prepared.includeSpecialCards, 20))

\* The prepared dungeons of the candidates that are proven.
ProvenDungeons ==
    {p \in UNION {{Prepared(c, special) : c \in Candidates[special]} : special \in BOOLEAN} :
        Proven(p)}

PoolKeys == {"base", "plus"}

\* Every dungeon held for the player is a proven one of the pool's mode, and no pool
\* is over its limit.
C38_OnlyProvenHeld ==
    app # NoApp =>
        /\ \A key \in PoolKeys :
              /\ Len(app.silentPools[key]) <= SILENT_POOL_LIMIT
              /\ \A i \in 1..Len(app.silentPools[key]) :
                    /\ app.silentPools[key][i].includeSpecialCards = (key = "plus")
                    /\ app.silentPools[key][i] \in ProvenDungeons
        /\ app.pendingDungeon # NoDungeon =>
              app.mode = "dungeonReady" /\ app.pendingDungeon \in ProvenDungeons

\* The run r, awaiting the solver for the dungeon, resumes in this step with the
\* verdict true.
SolvedTrue(handler, r, prepared) ==
    /\ lastCall'.handler = handler
    /\ lastCall'.clearable = "true"
    /\ lastCall'.token = r.token
    /\ r.pc = "awaitingSolver"
    /\ prepared = Prepared(r.candidate, r.includeSpecialCards)
    /\ FullDeckOf(prepared) = r.candidate.fullDeck

\* A dungeon comes into a pool or into pendingDungeon only by the run that was given
\* the verdict true for it, and leaves a pool only as the game of its mode.
C38_Step ==
    /\ \A key \in PoolKeys :
          LET pool == app.silentPools[key]
              after == app'.silentPools[key]
          IN  \/ after = pool
              \/ /\ Len(after) = Len(pool) + 1
                 /\ SubSeq(after, 1, Len(pool)) = pool
                 /\ SolvedTrue("fillSilentPool", silentRun, after[Len(after)])
                 /\ after[Len(after)].includeSpecialCards = (key = "plus")
              \/ /\ pool # <<>>
                 /\ after = Tail(pool)
                 /\ lastCall'.handler = "beginDungeonCreation"
                 /\ app'.game # NoGame
                 /\ app'.game.deck = Head(pool).deck
                 /\ app'.game.table = Head(pool).table
                 /\ app'.game.includeSpecialCards = (key = "plus")
                 /\ \A other \in PoolKeys \ {key} :
                       app'.silentPools[other] = app.silentPools[other]
    /\ (app'.pendingDungeon # NoDungeon /\ app'.pendingDungeon # app.pendingDungeon)
          => \E r \in creationRuns : SolvedTrue("creationRun", r, app'.pendingDungeon)
    /\ (lastCall'.handler \in {"creationRun", "fillSilentPool"} /\ lastCall'.clearable # "true")
          => /\ app'.silentPools = app.silentPools
             /\ app'.pendingDungeon = app.pendingDungeon

\* C38 Only proven decks are offered: a prepared dungeon is put into a silent pool or
\* into pendingDungeon (mode dungeonReady) only after the solver returned clearable
\* true for exactly that deck with the same includeSpecialCards flag; the verdicts
\* false and indeterminate are never enqueued, no pool holds more than 3 dungeons, and
\* a pooled dungeon is handed out at most once and only for the mode it was solved for.
C38_OnlyProvenDecks ==
    [](C38_OnlyProvenHeld) /\ [][app # NoApp => C38_Step]_vars

\* A game dealt from the base pool while the plus pool is full.
C38_Witness ==
    /\ OnScreen("room")
    /\ lastCall.handler = "beginDungeonCreation"
    /\ Len(app.silentPools.plus) = SILENT_POOL_LIMIT
    /\ ~app.game.includeSpecialCards

\* The run that resumes in this step had its token superseded.
StaleCreationRun == lastCall'.handler = "creationRun" /\ lastCall'.token # app.createDungeonToken

\* The fill that resumes in this step has a stale token or a mode that does not permit
\* silent solving.
StaleSilentFill ==
    /\ lastCall'.handler = "fillSilentPool"
    /\ (lastCall'.token # app.silentSolverToken \/ ~shouldRunSilentSolver(app))

\* A token that was superseded stays superseded, and a stale run or fill that resumes
\* leaves the app as it is.
C39_Step ==
    /\ app'.createDungeonToken >= app.createDungeonToken
    /\ app'.silentSolverToken >= app.silentSolverToken
    /\ StaleCreationRun => app' = app
    /\ StaleSilentFill => app' = app

\* One creation run at most holds the current token, no run holds a later one, and one
\* silent-solver loop at most was started.
C39_OneLiveRun ==
    app # NoApp =>
        /\ \A r \in creationRuns : r.token <= app.createDungeonToken
        /\ Cardinality({r \in creationRuns : r.token = app.createDungeonToken}) <= 1
        /\ app.silentSolverToken <= 1
        /\ silentRun # NoRun => silentRun.token = 1 /\ app.silentSolverRunning

\* C39 Stale creation runs are inert: once a dungeon-creation run's token is superseded
\* (Cancel/showMenu, Skip, or a newer beginDungeonCreation), that run never again sets
\* pendingDungeon, changes mode or re-renders the screen when its pending solver call
\* later resolves, under every interleaving of user input with the awaited solver
\* results; a silent-solver fill whose token is stale or whose mode no longer permits
\* silent solving never enqueues its result, and at most one silent-solver loop is
\* ever started.
C39_StaleRunsInert ==
    [](C39_OneLiveRun) /\ [][app # NoApp => C39_Step]_vars

\* The solver call of a superseded run has resolved with the verdict true while a newer
\* run holds the token: the creating screen of the newer run stays up.
C39_Witness ==
    /\ app # NoApp
    /\ lastCall.handler = "creationRun"
    /\ lastCall.clearable = "true"
    /\ lastCall.token < app.createDungeonToken
    /\ \E r \in creationRuns : r.token = app.createDungeonToken
    /\ app.mode = "creatingDungeon"
    /\ app.pendingDungeon = NoDungeon

\* C40 Packed card module round trip: for every suit in {SPADES, HEARTS, DIAMONDS,
\* CLUBS} and rank in 2..14, rank(card(s, r)) == r and suit(card(s, r)) == s, so
\* isEnemy holds of card(s, r) exactly for spades and clubs, isWeapon exactly for
\* diamonds of rank 2..10 and isRepairKit exactly for diamonds of rank 11..14.
C40_PackedRoundTrip ==
    call.fn = "packedCard" =>
        /\ call.rankOfCard = call.rank
        /\ NumberEquals(call.suitOfCard, call.suit)
        /\ call.isEnemy <=> call.suit \in {SPADES, CLUBS}
        /\ call.isWeapon <=> (call.suit = DIAMONDS /\ call.rank \in 2..10)
        /\ call.isRepairKit <=> (call.suit = DIAMONDS /\ call.rank \in 11..14)

====
